---- MODULE Spec2Model ----
(***************************************************************************)
(* Resume-job matching and analysis engine of trendsetter-resume-helper.   *)
(*                                                                         *)
(* Texts are TLA+ strings over an ASCII alphabet; the Python string and    *)
(* regular-expression operations the engine uses are defined character by  *)
(* character.  Real numbers are exact rationals [num, den] in lowest       *)
(* terms (Python computes them in binary floating point; the two agree     *)
(* except on exact decimal ties of round()).                               *)
(***************************************************************************)
EXTENDS Integers, Sequences, FiniteSets, Bags, TLC

VARIABLES
    synonyms,        \* KeywordMatcher.synonyms  (instance attribute)
    tech_patterns,   \* KeywordMatcher.tech_patterns (instance attribute)
    hash_seed,       \* the process's string-hash seed: fixes set iteration order
    resume_text,     \* argument of the request being served
    jd_text,         \* argument of the request being served
    keywords,        \* text |-> [first, last, calls]: the return values of the
                     \*   first and the last _extract_keywords call on it
    result,          \* return value of the last match_resume_jd call
    score_args,      \* arguments of the last _calculate_match_score call
    score_out,       \* its return value, and that value rounded as in the result
    standard_sections, \* ATSChecker.standard_sections (instance attribute)
    ats_text,        \* argument of the check_compatibility call being served
    ats_report,      \* return value of the last check_compatibility call
    ats_calls,       \* text |-> [first, again]: the return value of the first
                     \*   check_compatibility call on it, and whether it was
                     \*   checked again after a call on another text
    weak_phrases,    \* GrammarChecker.weak_phrases (instance attribute)
    action_verbs,    \* GrammarChecker.action_verbs (instance attribute)
    common_errors,   \* GrammarChecker.common_errors (instance attribute)
    grammar_report,  \* return value of the last GrammarChecker.check call
    ats_friendly_sections, \* ResumeOptimizer.ats_friendly_sections
    optimization,    \* return value of the last ResumeOptimizer.optimize call
    optimize_args,   \* arguments of that call: missing_keywords, ats_issues,
                     \*   grammar_issues (text is resume_text)
    tfidf,           \* return value of the last _calculate_tfidf call (on jd_text
                     \*   and its keywords)
    random_state,    \* state of the generator of module random, shared by every
                     \*   random.choice: its outputs to come and its position
    analyses,        \* analysis |-> its text, its position and the values
                     \*   returned to it so far
    section_keywords, \* ResumeParser.section_keywords (instance attribute)
    parsed_text,     \* argument of the _identify_sections call being served
    parsed_sections, \* return value of the last _identify_sections call
    nlp,             \* BotAudit.nlp: the spaCy model, None when it is not loaded
    match_request,   \* form of the match_job request being served
    match_response   \* body of the last match_job response

matcher == <<synonyms, tech_patterns, hash_seed>>
request == <<resume_text, jd_text>>
ats == <<standard_sections, ats_text, ats_report, ats_calls>>
grammar == <<weak_phrases, action_verbs, common_errors, grammar_report>>
optimizer == <<ats_friendly_sections, optimization, optimize_args>>
concurrent == <<random_state, analyses>>
parser == <<section_keywords, parsed_text, parsed_sections>>
bot == <<nlp, match_request, match_response>>
vars == <<matcher, request, keywords, result, score_args, score_out, ats,
          grammar, optimizer, tfidf, concurrent, parser, bot>>

(***************************************************************************)
(* Characters and Python str operations                                    *)
(***************************************************************************)
Ch(s, i) == SubSeq(s, i, i)

UpperLetters == "ABCDEFGHIJKLMNOPQRSTUVWXYZ"
LowerLetters == "abcdefghijklmnopqrstuvwxyz"
Digits == "0123456789"

CharsOf(s) == {Ch(s, i) : i \in 1..Len(s)}

UpperSet == CharsOf(UpperLetters)
LowerSet == CharsOf(LowerLetters)
DigitSet == CharsOf(Digits)

\* \w of the re module (ASCII part)
WordSet == UpperSet \cup LowerSet \cup DigitSet \cup {"_"}

\* str.isspace characters of the alphabet
SpaceSet == {" ", "\t", "\n"}

ToLower == [c \in UpperSet |->
              Ch(LowerLetters, CHOOSE i \in 1..26 : Ch(UpperLetters, i) = c)]

LowerCh(c) == IF c \in UpperSet THEN ToLower[c] ELSE c

\* str.lower()
RECURSIVE Lower(_)
Lower(s) ==
    IF Len(s) = 0 THEN ""
    ELSE IF Len(s) = 1 THEN LowerCh(s)
    ELSE LET mid == Len(s) \div 2
         IN  Lower(SubSeq(s, 1, mid)) \o Lower(SubSeq(s, mid + 1, Len(s)))

\* s[i:].startswith(sub), positions counted from 1
StartsAt(sub, s, i) == i >= 1 /\ i + Len(sub) - 1 <= Len(s)
                       /\ SubSeq(s, i, i + Len(sub) - 1) = sub

\* sub in s
Contains(sub, s) == \E i \in 1..(Len(s) - Len(sub) + 1) : StartsAt(sub, s, i)

\* least element of a non-empty set of integers
MinOf(S) == CHOOSE x \in S : \A y \in S : x <= y

\* Leftmost-first scan shared by str.count and re.findall: lenAt[i] > 0 is the
\* length of the match that starts at i; the positions of the matches taken
\* from position i on, each scan resuming after the previous match
RECURSIVE ScanFrom(_, _)
ScanFrom(lenAt, i) ==
    LET later == {p \in DOMAIN lenAt : p >= i /\ lenAt[p] > 0}
    IN  IF later = {} THEN <<>>
        ELSE LET p == MinOf(later)
             IN  <<p>> \o ScanFrom(lenAt, p + lenAt[p])

\* s.count(sub): non-overlapping occurrences, leftmost first
Count(sub, s) ==
    Len(ScanFrom([i \in 1..Len(s) |-> IF StartsAt(sub, s, i) THEN Len(sub) ELSE 0], 1))

\* len(s.split()): number of maximal runs of non-whitespace characters
WordCount(s) ==
    Cardinality({i \in 1..Len(s) :
                    /\ Ch(s, i) \notin SpaceSet
                    /\ (i = 1 \/ Ch(s, i - 1) \in SpaceSet)})

\* the regular expression assertion \b before position i (1..Len(s)+1)
IsWordAt(s, i) == i >= 1 /\ i <= Len(s) /\ Ch(s, i) \in WordSet
WordBoundary(s, i) == IsWordAt(s, i - 1) # IsWordAt(s, i)

\* number of consecutive characters of s from position i on that lie in set
RunLen(s, i, set) ==
    LET stops == {j \in i..Len(s) : Ch(s, j) \notin set}
    IN  IF stops = {} THEN Len(s) - i + 1 ELSE MinOf(stops) - i

(***************************************************************************)
(* KeywordMatcher: static tables                                           *)
(***************************************************************************)
\* self.synonyms, in dict insertion order
Synonyms == <<
    [key |-> "javascript", variants |-> <<"js", "javascript", "ecmascript">>],
    [key |-> "react",      variants |-> <<"react", "reactjs", "react.js">>],
    [key |-> "node",       variants |-> <<"node", "nodejs", "node.js">>],
    [key |-> "python",     variants |-> <<"python", "py">>],
    [key |-> "typescript", variants |-> <<"typescript", "ts">>],
    [key |-> "database",   variants |-> <<"database", "db", "sql", "nosql">>],
    [key |-> "api",        variants |-> <<"api", "rest", "restful", "graphql">>],
    [key |-> "frontend",   variants |-> <<"frontend", "front-end", "front end">>],
    [key |-> "backend",    variants |-> <<"backend", "back-end", "back end">>],
    [key |-> "fullstack",  variants |-> <<"fullstack", "full-stack", "full stack">> ] >>

\* self.tech_patterns: each pattern is \b(?:alt1|alt2|...)\b with re.IGNORECASE;
\* the alternatives are kept in their order, lowercased (Node\.?js is its two
\* expansions, the one with the dot first as the greedy '?' tries it first)
TechPatterns == <<
    <<"react", "angular", "vue", "javascript", "typescript", "python", "java",
      "c++", "c#", "ruby", "go", "rust", "swift", "kotlin">>,
    <<"node.js", "nodejs", "django", "flask", "spring", "express", "fastapi", "rails">>,
    <<"sql", "postgresql", "mysql", "mongodb", "redis", "cassandra", "dynamodb">>,
    <<"aws", "azure", "gcp", "docker", "kubernetes", "jenkins", "ci/cd">>,
    <<"git", "github", "gitlab", "jira", "agile", "scrum">> >>

\* multiword_patterns of _extract_keywords
multiword_patterns == <<
    <<"machine learning", "artificial intelligence", "data science", "web development">>,
    <<"software engineer", "full stack", "front end", "back end", "devops">>,
    <<"agile methodology", "test driven", "continuous integration", "version control">> >>

common_words == {"the", "and", "for", "with", "you", "this", "that", "will",
                 "have", "are", "from"}

Range(f) == {f[i] : i \in DOMAIN f}

(***************************************************************************)
(* re.findall for the two shapes of pattern the matcher uses               *)
(***************************************************************************)
\* index of the first alternative of \b(?:alts)\b that matches s at i, else 0
\* (ls is s lowercased: the match ignores case)
FirstAlt(alts, s, ls, i) ==
    LET ok == {k \in 1..Len(alts) :
                  /\ StartsAt(alts[k], ls, i)
                  /\ WordBoundary(s, i + Len(alts[k]))}
    IN  IF ok = {} THEN 0 ELSE CHOOSE k \in ok : \A j \in ok : k <= j

\* {m.lower() for m in re.findall(r'\b(?:alts)\b', s, re.IGNORECASE)}
FindTerms(alts, s, ls) ==
    LET altAt == [i \in 1..Len(s) |->
                     IF WordBoundary(s, i) THEN FirstAlt(alts, s, ls, i) ELSE 0]
        lenAt == [i \in 1..Len(s) |->
                     IF altAt[i] = 0 THEN 0 ELSE Len(alts[altAt[i]])]
        taken == ScanFrom(lenAt, 1)
    IN  {alts[altAt[taken[j]]] : j \in DOMAIN taken}

\* length of the match at i of \b[A-Z][a-z]{2,}|[A-Z]{2,}\b (0: no match).
\* First alternative: a word boundary, a capital, two or more small letters
\* (greedy, no boundary needed after).  Second alternative: two or more
\* capitals followed by a word boundary (no boundary needed before).
CapWordLen(s, i) ==
    LET low == RunLen(s, i + 1, LowerSet)
        up  == RunLen(s, i, UpperSet)
    IN  IF WordBoundary(s, i) /\ Ch(s, i) \in UpperSet /\ low >= 2 THEN 1 + low
        ELSE IF up >= 2 /\ WordBoundary(s, i + up) THEN up
        ELSE 0

\* [w.lower() for w in re.findall(r'\b[A-Z][a-z]{2,}|[A-Z]{2,}\b', s)]
FindCapWords(s) ==
    LET lenAt == [i \in 1..Len(s) |-> CapWordLen(s, i)]
        taken == ScanFrom(lenAt, 1)
    IN  [j \in DOMAIN taken |->
            Lower(SubSeq(s, taken[j], taken[j] + lenAt[taken[j]] - 1))]

(***************************************************************************)
(* KeywordMatcher._extract_keywords                                        *)
(***************************************************************************)
_extract_keywords(text) ==
    LET ls     == Lower(text)
        tech   == UNION {FindTerms(tech_patterns[p], text, ls) :
                            p \in DOMAIN tech_patterns}
        multi  == UNION {FindTerms(multiword_patterns[p], text, ls) :
                            p \in DOMAIN multiword_patterns}
        words  == FindCapWords(text)
        word_counts == [w \in Range(words) |->
                           Cardinality({i \in DOMAIN words : words[i] = w})]
        frequent == {w \in Range(words) : word_counts[w] >= 2 /\ Len(w) >= 3}
    IN  {kw \in tech \cup multi \cup frequent : kw \notin common_words}

(***************************************************************************)
(* Numbers: exact rationals in lowest terms, and Python's round()          *)
(***************************************************************************)
RECURSIVE Gcd(_, _)
Gcd(a, b) == IF b = 0 THEN a ELSE Gcd(b, a % b)

\* n/d for d > 0, n >= 0
Rat(n, d) == LET g == Gcd(n, d) IN [num |-> n \div g, den |-> d \div g]
R(n) == Rat(n, 1)

RAdd(a, b) == Rat(a.num * b.den + b.num * a.den, a.den * b.den)
RMul(a, b) == Rat(a.num * b.num, a.den * b.den)
RLess(a, b) == a.num * b.den < b.num * a.den
RLeq(a, b) == a.num * b.den <= b.num * a.den
RMin(a, b) == IF RLess(b, a) THEN b ELSE a
RMax(a, b) == IF RLess(a, b) THEN b ELSE a

\* no value: a call not made yet, and Python's None
None == [none |-> TRUE]

\* what an operation yields when Python raises ZeroDivisionError in it
ZeroDivisionError == [raised |-> "ZeroDivisionError"]

\* a / b
Div(a, b) == IF b.num = 0 THEN ZeroDivisionError
             ELSE Rat(a.num * b.den, a.den * b.num)

RECURSIVE Pow10(_)
Pow10(d) == IF d = 0 THEN 1 ELSE 10 * Pow10(d - 1)

\* round(x, ndigits): nearest multiple of 10^-ndigits, ties to the even one
\* (the integer part is split off first, which keeps the products small)
Round(x, ndigits) ==
    LET scale == Pow10(ndigits)
        whole == x.num \div x.den
        n     == (x.num % x.den) * scale
        q     == whole * scale + (n \div x.den)
        rem   == n % x.den
        up    == 2 * rem > x.den \/ (2 * rem = x.den /\ q % 2 = 1)
    IN  Rat(IF up THEN q + 1 ELSE q, scale)

\* least common multiple of a set of positive integers
RECURSIVE Lcm(_)
Lcm(D) ==
    IF D = {} THEN 1
    ELSE LET d    == CHOOSE x \in D : TRUE
             rest == Lcm(D \ {d})
         IN  (d * rest) \div Gcd(d, rest)

\* sum(w[k] for k in S) for a function w of rationals: the numerators over the
\* common denominator, added up as the cardinality of a bag
SumOver(S, w) ==
    LET den      == Lcm({w[k].den : k \in S})
        positive == {k \in S : w[k].num > 0}
    IN  Rat(BagCardinality([k \in positive |-> w[k].num * (den \div w[k].den)]), den)

(***************************************************************************)
(* Ordering of strings, sorted(), set iteration order                      *)
(***************************************************************************)
\* the characters of the alphabet in code point order
AsciiOrder == "\t\n !#%()+,-./0123456789?@ABCDEFGHIJKLMNOPQRSTUVWXYZ^_abcdefghijklmnopqrstuvwxyz~"

Ord == [c \in CharsOf(AsciiOrder) |->
           CHOOSE i \in 1..Len(AsciiOrder) : Ch(AsciiOrder, i) = c]

\* a < b for str
StrLess(a, b) ==
    \E i \in 1..Len(b) :
        /\ i <= Len(a) + 1
        /\ SubSeq(a, 1, i - 1) = SubSeq(b, 1, i - 1)
        /\ (i = Len(a) + 1 \/ Ord[Ch(a, i)] < Ord[Ch(b, i)])

\* sorted(S) for a set (or a list without repetitions) of str
RECURSIVE Sorted(_)
Sorted(S) ==
    IF S = {} THEN <<>>
    ELSE LET m == CHOOSE x \in S : \A y \in S : x = y \/ StrLess(x, y)
         IN  <<m>> \o Sorted(S \ {m})

Reverse(q) == [i \in 1..Len(q) |-> q[Len(q) + 1 - i]]
Rotate(q, r) == IF Len(q) = 0 THEN q
                ELSE [i \in 1..Len(q) |-> q[((i - 1 + r) % Len(q)) + 1]]

\* list(S) / "for x in S" for a set of str: the order depends on the process's
\* hash seed only; seed 0 is ascending, odd seeds reverse, seed \div 2 rotates
ListOf(S) ==
    LET base == Rotate(Sorted(S), hash_seed \div 2)
    IN  IF hash_seed % 2 = 1 THEN Reverse(base) ELSE base

\* q[:n]
Take(q, n) == SubSeq(q, 1, IF Len(q) < n THEN Len(q) ELSE n)

(***************************************************************************)
(* re.split(r'[.!?]', s) and str.strip()                                   *)
(***************************************************************************)
\* position of the first character of s at or after i that is in set, else 0
FindChar(s, i, set) ==
    LET at == {j \in i..Len(s) : Ch(s, j) \in set}
    IN  IF at = {} THEN 0 ELSE MinOf(at)

\* the pieces of s between single characters of set, empty pieces included
RECURSIVE SplitFrom(_, _, _)
SplitFrom(s, i, set) ==
    LET j == FindChar(s, i, set)
    IN  IF j = 0 THEN <<SubSeq(s, i, Len(s))>>
        ELSE <<SubSeq(s, i, j - 1)>> \o SplitFrom(s, j + 1, set)

SplitOn(s, set) == SplitFrom(s, 1, set)

Strip(s) ==
    LET keep == {i \in 1..Len(s) : Ch(s, i) \notin SpaceSet}
    IN  IF keep = {} THEN ""
        ELSE SubSeq(s, CHOOSE i \in keep : \A j \in keep : i <= j,
                       CHOOSE i \in keep : \A j \in keep : i >= j)

(***************************************************************************)
(* KeywordMatcher._calculate_tfidf                                         *)
(***************************************************************************)
\* as idf_of, the multiplier 2.0 kept up to 6 occurrences
idf_of_two_to_six(count) == IF count >= 2 /\ count <= 6 THEN Rat(2, 1)
                            ELSE IF count = 1 THEN Rat(3, 2)
                            ELSE Rat(1, 1)

\* the multiplier chosen from the number of occurrences
idf_of(count) == IF count >= 2 /\ count <= 5 THEN Rat(2, 1)
                 ELSE IF count = 1 THEN Rat(3, 2)
                 ELSE Rat(1, 1)

\* tf = text_lower.count(keyword.lower()) / total_words if total_words > 0 else 0
tf_of(count, total_words) ==
    IF total_words > 0 THEN Div(R(count), R(total_words)) ELSE R(0)

_calculate_tfidf(text, kws) ==
    LET text_lower  == Lower(text)
        total_words == WordCount(text_lower)
        count(kw)   == Count(Lower(kw), text_lower)
        tf(kw)      == tf_of(count(kw), total_words)
    IN  IF \E kw \in kws : tf(kw) = ZeroDivisionError THEN ZeroDivisionError
        ELSE [kw \in kws |-> RMul(tf(kw), idf_of(count(kw)))]

(***************************************************************************)
(* KeywordMatcher._find_matches and _find_missing_keywords                 *)
(* (resume_lower is the resume text already lowercased by the caller)      *)
(***************************************************************************)
\* the synonym classes (indices into self.synonyms) that list kw as a variant
ClassesOf(kw) == {c \in DOMAIN synonyms : kw \in Range(synonyms[c].variants)}

\* some variant of class c occurs in the text
VariantIn(c, resume_lower) ==
    \E v \in Range(synonyms[c].variants) : Contains(v, resume_lower)

\* as _find_matches, without the loop over the synonym classes
_find_matches_no_synonyms(resume_kw, jd_kw, resume_lower, jd_lower) ==
    LET direct_matches == resume_kw \cap jd_kw
        later == {jd_keyword \in jd_kw \ direct_matches :
                     Contains(jd_keyword, resume_lower)}
    IN  direct_matches \cup later

_find_matches(resume_kw, jd_kw, resume_lower, jd_lower) ==
    LET direct_matches == resume_kw \cap jd_kw
        later == {jd_keyword \in jd_kw \ direct_matches :
                     \/ Contains(jd_keyword, resume_lower)
                     \/ \E c \in ClassesOf(jd_keyword) : VariantIn(c, resume_lower)}
    IN  direct_matches \cup later

\* found: the keyword is in the text, or a variant of the first class that
\* lists it is (the loop over the classes breaks at that class)
found_in_resume(keyword, resume_lower) ==
    \/ Contains(keyword, resume_lower)
    \/ /\ ClassesOf(keyword) # {}
       /\ VariantIn(CHOOSE c \in ClassesOf(keyword) :
                        \A d \in ClassesOf(keyword) : c <= d, resume_lower)

\* as _find_missing_keywords, looking the keyword up in the resume's keyword
\* set instead of the resume text
_find_missing_keywords_by_set(jd_kw, resume_kw, resume_lower) ==
    SelectSeq(ListOf(jd_kw), LAMBDA keyword : keyword \notin resume_kw)

\* as _find_missing_keywords, without the look-up of the synonym classes
_find_missing_keywords_without_synonyms(jd_kw, resume_kw, resume_lower) ==
    SelectSeq(ListOf(jd_kw), LAMBDA keyword : ~Contains(keyword, resume_lower))

\* the list is built in the iteration order of the set jd_kw
_find_missing_keywords(jd_kw, resume_kw, resume_lower) ==
    SelectSeq(ListOf(jd_kw), LAMBDA keyword : ~found_in_resume(keyword, resume_lower))

(***************************************************************************)
(* KeywordMatcher._calculate_match_score                                   *)
(***************************************************************************)
\* as weighted_match_score, the two partial scores added without the 70/30
\* weights and returned without the clamp
weighted_match_score_plain_sum(matches, jd_keywords, jd_tfidf) ==
    LET base_score     == RMul(Div(R(Cardinality(matches)), R(Cardinality(jd_keywords))),
                               R(100))
        got            == [kw \in matches |->
                              IF kw \in DOMAIN jd_tfidf THEN jd_tfidf[kw] ELSE R(1)]
        matched_weight == SumOver(matches, got)
        total_weight   == SumOver(DOMAIN jd_tfidf, jd_tfidf)
        weighted_score == IF RLess(R(0), total_weight)
                          THEN RMul(Div(matched_weight, total_weight), R(100))
                          ELSE R(0)
    IN  RAdd(base_score, weighted_score)

\* as weighted_match_score, the two partial scores added without the 70/30
\* weights (the clamp kept)
weighted_match_score_unweighted(matches, jd_keywords, jd_tfidf) ==
    RMin(R(100), weighted_match_score_plain_sum(matches, jd_keywords, jd_tfidf))

\* as weighted_match_score, every matched keyword weighed with the default 1.0
\* of jd_tfidf.get
weighted_match_score_default_weight(matches, jd_keywords, jd_tfidf) ==
    LET base_score     == RMul(Div(R(Cardinality(matches)), R(Cardinality(jd_keywords))),
                               R(100))
        got            == [kw \in matches |-> R(1)]
        matched_weight == SumOver(matches, got)
        total_weight   == SumOver(DOMAIN jd_tfidf, jd_tfidf)
        weighted_score == IF RLess(R(0), total_weight)
                          THEN RMul(Div(matched_weight, total_weight), R(100))
                          ELSE R(0)
        final_score    == RAdd(RMul(base_score, Rat(7, 10)),
                               RMul(weighted_score, Rat(3, 10)))
    IN  RMin(R(100), final_score)

\* the body after the early return: the job has at least one keyword
weighted_match_score(matches, jd_keywords, jd_tfidf) ==
    LET base_score     == RMul(Div(R(Cardinality(matches)), R(Cardinality(jd_keywords))),
                               R(100))
        \* jd_tfidf.get(kw, 1.0)
        got            == [kw \in matches |->
                              IF kw \in DOMAIN jd_tfidf THEN jd_tfidf[kw] ELSE R(1)]
        matched_weight == SumOver(matches, got)
        total_weight   == SumOver(DOMAIN jd_tfidf, jd_tfidf)
        weighted_score == IF RLess(R(0), total_weight)
                          THEN RMul(Div(matched_weight, total_weight), R(100))
                          ELSE R(0)
        final_score    == RAdd(RMul(base_score, Rat(7, 10)),
                               RMul(weighted_score, Rat(3, 10)))
    IN  RMin(R(100), final_score)

\* as _calculate_match_score, without the early return for an empty job
\* keyword set: the division by len(jd_keywords) raises
_calculate_match_score_no_guard(matches, jd_keywords, jd_tfidf) ==
    IF jd_keywords = {} THEN ZeroDivisionError
    ELSE weighted_match_score(matches, jd_keywords, jd_tfidf)

_calculate_match_score(matches, jd_keywords, jd_tfidf) ==
    IF jd_keywords = {} THEN R(0)
    ELSE weighted_match_score(matches, jd_keywords, jd_tfidf)

(***************************************************************************)
(* KeywordMatcher._calculate_keyword_density                               *)
(***************************************************************************)
density_of(count, total_words) ==
    IF total_words > 0
    THEN LET q == Div(R(count), R(total_words))
         IN  IF q = ZeroDivisionError THEN q ELSE Round(RMul(q, R(100)), 2)
    ELSE R(0)

_calculate_keyword_density(text, kws) ==
    LET text_lower  == Lower(text)
        total_words == WordCount(text_lower)
        top         == Range(Take(ListOf(kws), 10))
        d(kw)       == density_of(Count(kw, text_lower), total_words)
    IN  IF \E kw \in top : d(kw) = ZeroDivisionError THEN ZeroDivisionError
        ELSE [kw \in top |-> d(kw)]

(***************************************************************************)
(* KeywordMatcher._generate_suggestions                                    *)
(***************************************************************************)
\* the entries appended for one keyword (none when the keyword is in the job
\* text but in no single sentence of it)
suggestion_for(keyword, j_text) ==
    LET keyword_lower == Lower(keyword)
        sentences     == SplitOn(j_text, {".", "!", "?"})
        hits          == {i \in DOMAIN sentences :
                             Contains(keyword_lower, Lower(sentences[i]))}
    IN  IF Contains(keyword_lower, Lower(j_text))
        THEN IF hits = {} THEN <<>>
             ELSE <<[keyword    |-> keyword,
                     suggestion |-> "Add \"" \o keyword
                                      \o "\" to your skills or experience section",
                     context    |-> Take(Strip(sentences[CHOOSE i \in hits :
                                                   \A j \in hits : i <= j]), 100)]>>
        ELSE <<[keyword    |-> keyword,
                suggestion |-> "Consider adding \"" \o keyword \o "\" to your resume",
                context    |-> ""]>>

RECURSIVE SuggestEach(_, _)
SuggestEach(kwlist, j_text) ==
    IF kwlist = <<>> THEN <<>>
    ELSE suggestion_for(Head(kwlist), j_text) \o SuggestEach(Tail(kwlist), j_text)

_generate_suggestions(missing_keywords, j_text) ==
    SuggestEach(Take(missing_keywords, 10), j_text)

(***************************************************************************)
(* KeywordMatcher.match_resume_jd                                          *)
(***************************************************************************)
\* the single element of a one-element set: an intermediate result is computed
\* once and bound to a name, as an assignment to a local does
The(S) == CHOOSE x \in S : TRUE

match_resume_jd(r_text, j_text) ==
    The({
    The({
        IF ZeroDivisionError \in {jd_tfidf, resume_tfidf} THEN ZeroDivisionError
        ELSE
        The({
            IF ZeroDivisionError \in {score, density} THEN ZeroDivisionError
            ELSE [score             |-> Round(score, 1),
                  match_percentage  |-> Round(score, 1),
                  found_keywords    |-> Take(Sorted(matches), 20),
                  missing_keywords  |-> Take(Sorted(Range(missing)), 15),
                  keyword_density   |-> density,
                  total_jd_keywords |-> Cardinality(jd_keywords),
                  matched_keywords  |-> Cardinality(matches),
                  suggestions       |-> Take(suggestions, 10)]
          : score       \in {_calculate_match_score(matches, jd_keywords, jd_tfidf)},
            density     \in {_calculate_keyword_density(r_text, matches)},
            suggestions \in {_generate_suggestions(missing, j_text)}})
      : jd_tfidf     \in {_calculate_tfidf(j_text, jd_keywords)},
        resume_tfidf \in {_calculate_tfidf(r_text, resume_keywords)},
        matches      \in {_find_matches(resume_keywords, jd_keywords,
                                        Lower(r_text), Lower(j_text))},
        missing      \in {_find_missing_keywords(jd_keywords, resume_keywords,
                                                 Lower(r_text))}})
      : jd_keywords     \in {_extract_keywords(j_text)},
        resume_keywords \in {_extract_keywords(r_text)}})

(***************************************************************************)
(* ATSChecker (ats_checker.py).  The box-drawing characters of             *)
(* _has_complex_formatting are written "~" and the symbols of              *)
(* _has_special_chars are written "^".                                     *)
(***************************************************************************)
\* self.standard_sections
StandardSections == <<"summary", "objective", "experience", "work experience",
                      "employment", "education", "skills", "technical skills",
                      "certifications", "projects", "achievements", "awards">>

\* the characters of r'[│┤├┼─━]' and of r'[★☆●○■□▪▫◆◇]'
BoxDrawingSet == {"~"}
SymbolSet == {"^"}

\* greatest element of a non-empty set of integers
MaxOf(S) == 0 - MinOf({0 - x : x \in S})

\* line.strip() for a line of any length
StripLine(s) ==
    The({IF keep = {} THEN "" ELSE SubSeq(s, MinOf(keep), MaxOf(keep))
         : keep \in {{i \in 1..Len(s) : Ch(s, i) \notin SpaceSet}}})

\* len(re.findall(r'[set]', text))
CountIn(text, set) == Cardinality({i \in 1..Len(text) : Ch(text, i) \in set})

\* ", ".join(q)
RECURSIVE Join(_, _)
Join(q, sep) ==
    IF Len(q) = 0 THEN ""
    ELSE IF Len(q) = 1 THEN q[1]
    ELSE q[1] \o sep \o Join(Tail(q), sep)

\* str.isupper(): some cased character, and no lowercase one
IsUpper(s) ==
    /\ \E i \in 1..Len(s) : Ch(s, i) \in UpperSet
    /\ \A i \in 1..Len(s) : Ch(s, i) \notin LowerSet

\* str.istitle(): some cased character, uppercase only after uncased
\* characters and lowercase only after cased ones
IsTitle(s) ==
    LET cased(i) == i >= 1 /\ Ch(s, i) \in UpperSet \cup LowerSet
    IN  /\ \E i \in 1..Len(s) : cased(i)
        /\ \A i \in 1..Len(s) :
              /\ Ch(s, i) \in UpperSet => ~cased(i - 1)
              /\ Ch(s, i) \in LowerSet => cased(i - 1)

_has_table_markers(text) ==
    LET lines == SplitOn(text, {"\n"})
        table_pattern == Cardinality({i \in DOMAIN lines :
                             \/ Contains("\t\t", lines[i])
                             \/ Contains("          ", lines[i])})
    IN  table_pattern > 3

_has_complex_formatting(text) == CountIn(text, BoxDrawingSet) > 5

\* the test made on one stripped line: it is a header, and not a standard one
is_nonstandard_header(line) ==
    /\ WordCount(line) >= 1 /\ WordCount(line) <= 4
    /\ Len(line) < 50
    /\ IsUpper(line) \/ IsTitle(line)
    /\ ~\E k \in DOMAIN standard_sections : Contains(standard_sections[k], Lower(line))
    /\ Len(line) > 3

_check_section_headers(text) ==
    The({Take(SelectSeq([i \in DOMAIN lines |-> StripLine(lines[i])],
                        is_nonstandard_header), 5)
         : lines \in {SplitOn(text, {"\n"})}})

_has_special_chars(text) == CountIn(text, SymbolSet) > 10

\* re.search(r'\b[A-Za-z0-9._%+-]+@[A-Za-z0-9.-]+\.[A-Z|a-z]{2,}\b', text):
\* an "@" at p, a run of local characters from a word boundary up to p, a run
\* of domain characters after p up to a "." at q, and at least two characters
\* of [A-Z|a-z] after q ending at a word boundary
LocalSet == UpperSet \cup LowerSet \cup DigitSet \cup {".", "_", "%", "+", "-"}
DomainSet == UpperSet \cup LowerSet \cup DigitSet \cup {".", "-"}
TldSet == UpperSet \cup LowerSet \cup {"|"}

\* number of consecutive characters of s before position i that lie in set
RunLenBack(s, i, set) ==
    LET stops == {j \in 1..(i - 1) : Ch(s, j) \notin set}
    IN  IF stops = {} THEN i - 1 ELSE i - 1 - MaxOf(stops)

EmailAt(s, p) ==
    /\ Ch(s, p) = "@"
    /\ \E i \in (p - RunLenBack(s, p, LocalSet))..(p - 1) : WordBoundary(s, i)
    /\ \E q \in (p + 2)..(p + RunLen(s, p + 1, DomainSet)) :
          /\ Ch(s, q) = "."
          /\ \E e \in (q + 2)..(q + RunLen(s, q + 1, TldSet)) : WordBoundary(s, e + 1)

\* re.match at i of r'\(?\d{3}\)?[-.\s]?\d{3}[-.\s]?\d{4}': each optional
\* item is present (1) or absent (0)
SeparatorSet == {"-", "."} \cup SpaceSet

DigitsAt(s, i, n) == \A j \in i..(i + n - 1) : j <= Len(s) /\ Ch(s, j) \in DigitSet

PhoneAt(s, i) ==
    \E a \in 0..1, b \in 0..1, c \in 0..1, d \in 0..1 :
        LET p1 == i + a
            p2 == p1 + 3 + b
            p3 == p2 + c
            p4 == p3 + 3 + d
        IN  /\ a = 1 => Ch(s, i) = "("
            /\ DigitsAt(s, p1, 3)
            /\ b = 1 => p1 + 3 <= Len(s) /\ Ch(s, p1 + 3) = ")"
            /\ c = 1 => p2 <= Len(s) /\ Ch(s, p2) \in SeparatorSet
            /\ DigitsAt(s, p3, 3)
            /\ d = 1 => p3 + 3 <= Len(s) /\ Ch(s, p3 + 3) \in SeparatorSet
            /\ DigitsAt(s, p4, 4)

_has_contact_info(text) ==
    LET has_email == \E p \in 1..Len(text) : Ch(text, p) = "@" /\ EmailAt(text, p)
        has_phone == \E i \in 1..Len(text) :
                        Ch(text, i) \in DigitSet \cup {"("} /\ PhoneAt(text, i)
    IN  has_email \/ has_phone

\* the alternatives of the group in the second pattern of _has_metrics
MetricUnits == <<"million", "billion", "thousand", "hundred", "users",
                 "customers", "revenue", "sales">>

\* re.match at i of r'\b\d+\s*(million|...|sales)\b', re.IGNORECASE: the
\* digits and the white space are maximal runs (a unit starts with a letter)
NumberInContextAt(s, i) ==
    /\ WordBoundary(s, i)
    /\ Ch(s, i) \in DigitSet
    /\ LET u == i + RunLen(s, i, DigitSet)
           v == u + RunLen(s, u, SpaceSet)
       IN  \E k \in DOMAIN MetricUnits :
              /\ v + Len(MetricUnits[k]) - 1 <= Len(s)
              /\ Lower(SubSeq(s, v, v + Len(MetricUnits[k]) - 1)) = MetricUnits[k]
              /\ WordBoundary(s, v + Len(MetricUnits[k]))

_has_metrics(text) ==
    LET \* len(re.findall(r'\d+%', text)): one match for each "%" after a digit
        percentages == Cardinality({i \in 2..Len(text) :
                           Ch(text, i) = "%" /\ Ch(text, i - 1) \in DigitSet})
        numbers == Cardinality({i \in 1..Len(text) : NumberInContextAt(text, i)})
    IN  percentages + numbers >= 3

\* as _get_compatibility_rating, each comparison strict (score > 80, ...)
_get_compatibility_rating_strict(score) ==
    IF RLess(R(80), score) THEN "Excellent"
    ELSE IF RLess(R(60), score) THEN "Good"
    ELSE IF RLess(R(40), score) THEN "Fair"
    ELSE "Poor"

_get_compatibility_rating(score) ==
    IF RLeq(R(80), score) THEN "Excellent"
    ELSE IF RLeq(R(60), score) THEN "Good"
    ELSE IF RLeq(R(40), score) THEN "Fair"
    ELSE "Poor"

\* one fired rule: the issue appended and the amount taken off the score
Outcome(type, severity, message, fix, penalty) ==
    <<[issue |-> [type |-> type, severity |-> severity, message |-> message,
                  fix |-> fix],
       penalty |-> penalty]>>

\* the n-th of the seven if-statements of check_compatibility
rule_outcome(n, text) ==
    CASE n = 1 ->
           IF _has_table_markers(text)
           THEN Outcome("tables", "high",
                        "Tables detected - ATS may not parse correctly",
                        "Use simple text formatting instead of tables", 15)
           ELSE <<>>
      [] n = 2 ->
           IF _has_complex_formatting(text)
           THEN Outcome("formatting", "medium", "Complex formatting detected",
                        "Use simple, clean formatting with standard fonts", 10)
           ELSE <<>>
      [] n = 3 ->
           The({IF non_standard # <<>>
                THEN Outcome("headers", "medium",
                             "Non-standard section headers found: "
                                 \o Join(Take(non_standard, 3), ", "),
                             "Use standard headers like \"Work Experience\", \"Education\", \"Skills\"",
                             10)
                ELSE <<>>
                : non_standard \in {_check_section_headers(text)}})
      [] n = 4 ->
           IF _has_special_chars(text)
           THEN Outcome("special_chars", "low",
                        "Excessive special characters or symbols detected",
                        "Remove decorative symbols, use simple bullet points", 5)
           ELSE <<>>
      [] n = 5 ->
           IF ~_has_contact_info(text)
           THEN Outcome("contact", "high",
                        "Contact information not clearly visible",
                        "Add email and phone number at the top of resume", 15)
           ELSE <<>>
      [] n = 6 ->
           The({IF word_count < 200
                THEN Outcome("length", "medium", "Resume appears too short",
                             "Expand on your experience and achievements", 10)
                ELSE IF word_count > 1500
                THEN Outcome("length", "low", "Resume appears too long",
                             "Consider reducing to 1-2 pages", 5)
                ELSE <<>>
                : word_count \in {WordCount(text)}})
      [] n = 7 ->
           IF ~_has_metrics(text)
           THEN Outcome("metrics", "medium",
                        "Few or no quantifiable achievements found",
                        "Add numbers, percentages, and measurable results", 10)
           ELSE <<>>

\* as rule_outcomes, the seven statements chained with elif: the first rule
\* that fires is the only one reported
rule_outcomes_elif(text) ==
    Take(rule_outcome(1, text) \o rule_outcome(2, text) \o rule_outcome(3, text)
         \o rule_outcome(4, text) \o rule_outcome(5, text) \o rule_outcome(6, text)
         \o rule_outcome(7, text), 1)

\* the rules that fired, in the order of the statements
rule_outcomes(text) ==
    rule_outcome(1, text) \o rule_outcome(2, text) \o rule_outcome(3, text)
    \o rule_outcome(4, text) \o rule_outcome(5, text) \o rule_outcome(6, text)
    \o rule_outcome(7, text)

\* as score_after, the 15-point penalties applied with the opposite sign
RECURSIVE score_after_high_added(_)
score_after_high_added(fired) ==
    IF fired = <<>> THEN 100
    ELSE score_after_high_added(SubSeq(fired, 1, Len(fired) - 1))
           + (IF fired[Len(fired)].penalty = 15 THEN 15 ELSE - fired[Len(fired)].penalty)

\* score after the statements: 100.0 less the penalties of the fired rules
RECURSIVE score_after(_)
score_after(fired) ==
    IF fired = <<>> THEN 100
    ELSE score_after(SubSeq(fired, 1, Len(fired) - 1)) - fired[Len(fired)].penalty

\* as check_compatibility, every fired rule taking the same 10 points
check_compatibility_flat_penalty(text, file_type) ==
    The({LET points == 100 - 10 * Len(fired)
             score  == R(IF points < 0 THEN 0 ELSE IF points > 100 THEN 100 ELSE points)
         IN  [score         |-> Round(score, 1),
              issues        |-> [i \in DOMAIN fired |-> fired[i].issue],
              total_issues  |-> Len(fired),
              compatibility |-> _get_compatibility_rating(score)]
         : fired \in {rule_outcomes(text)}})

check_compatibility(text, file_type) ==
    The({LET points == score_after(fired)
             \* score = max(0, min(100, score))
             score  == R(IF points < 0 THEN 0 ELSE IF points > 100 THEN 100 ELSE points)
         IN  [score         |-> Round(score, 1),
              issues        |-> [i \in DOMAIN fired |-> fired[i].issue],
              total_issues  |-> Len(fired),
              compatibility |-> _get_compatibility_rating(score)]
         : fired \in {rule_outcomes(text)}})

(***************************************************************************)
(* GrammarChecker (grammar_checker.py)                                     *)
(***************************************************************************)
\* self.weak_phrases
WeakPhrases == <<"responsible for", "duties included", "worked on", "helped with",
                 "participated in", "assisted with", "involved in", "tasked with">>

\* self.action_verbs
ActionVerbs == <<"achieved", "improved", "increased", "decreased", "reduced",
                 "developed", "created", "built", "designed", "implemented",
                 "launched", "led", "managed", "optimized", "streamlined",
                 "coordinated", "executed", "delivered", "drove", "established",
                 "generated", "transformed", "pioneered", "spearheaded">>

\* self.common_errors, in dict insertion order
CommonErrors == <<[error |-> "experiance", correction |-> "experience"],
                  [error |-> "recieve",    correction |-> "receive"],
                  [error |-> "occured",    correction |-> "occurred"],
                  [error |-> "seperate",   correction |-> "separate"],
                  [error |-> "definately", correction |-> "definitely"],
                  [error |-> "sucessful",  correction |-> "successful"],
                  [error |-> "managment",  correction |-> "management"],
                  [error |-> "develope",   correction |-> "develop"]>>

\* the phrases of self.weak_phrases found in the text, in list order
weak_phrases_in(text) ==
    The({SelectSeq(weak_phrases, LAMBDA phrase : Contains(phrase, text_lower))
         : text_lower \in {Lower(text)}})

\* choices[k] is the index random.choice draws in the k-th call of
\* _suggest_action_verb
_check_weak_language(text, choices) ==
    The({[k \in DOMAIN found |->
             [type       |-> "weak_language",
              severity   |-> "medium",
              phrase     |-> found[k],
              message    |-> "Weak phrase detected: \"" \o found[k] \o "\"",
              suggestion |-> "Replace with strong action verb (e.g., "
                                 \o action_verbs[choices[k]] \o ")"]]
         : found \in {weak_phrases_in(text)}})

_check_spelling(text) ==
    The({LET found == SelectSeq(common_errors,
                                LAMBDA e : Contains(e.error, text_lower))
         IN  [k \in DOMAIN found |->
                 [type       |-> "spelling",
                  severity   |-> "high",
                  error      |-> found[k].error,
                  message    |-> "Possible spelling error: \"" \o found[k].error \o "\"",
                  suggestion |-> "Did you mean \"" \o found[k].correction \o "\"?"]]
         : text_lower \in {Lower(text)}})

\* the words each passive pattern starts with, before \s+\w+ed\b
passive_patterns == <<<<"was">>, <<"were">>, <<"has", "been">>, <<"have", "been">>,
                      <<"had", "been">>>>

\* position after the words of lead, each followed by white space, when they
\* stand at position i of the lowercased text ls; 0 when they do not
RECURSIVE AfterLead(_, _, _)
AfterLead(lead, ls, i) ==
    IF lead = <<>> THEN i
    ELSE LET p == i + Len(Head(lead))
             w == RunLen(ls, p, SpaceSet)
         IN  IF StartsAt(Head(lead), ls, i) /\ p <= Len(ls) /\ w >= 1
             THEN AfterLead(Tail(lead), ls, p + w)
             ELSE 0

\* length of the match at i of r'\blead\s+\w+ed\b', re.IGNORECASE (0: none):
\* the last word is a whole run of word characters that ends in "ed"
PassiveLen(lead, ls, i) ==
    IF ~WordBoundary(ls, i) \/ ~StartsAt(Head(lead), ls, i) THEN 0
    ELSE LET p == AfterLead(lead, ls, i)
             w == IF p = 0 THEN 0 ELSE RunLen(ls, p, WordSet)
         IN  IF p > 0 /\ w >= 3 /\ SubSeq(ls, p + w - 2, p + w - 1) = "ed"
             THEN p + w - i
             ELSE 0

\* list(re.finditer(pattern, text, re.IGNORECASE))[:5] as matched strings
passive_matches(lead, text) ==
    The({LET taken == Take(ScanFrom(lenAt, 1), 5)
         IN  [k \in DOMAIN taken |->
                 SubSeq(text, taken[k], taken[k] + lenAt[taken[k]] - 1)]
         : lenAt \in {The({[i \in 1..Len(text) |-> PassiveLen(lead, ls, i)]
                           : ls \in {Lower(text)}})}})

RECURSIVE ConcatAll(_)
ConcatAll(qs) == IF qs = <<>> THEN <<>> ELSE Head(qs) \o ConcatAll(Tail(qs))

_check_passive_voice(text) ==
    LET phrases == ConcatAll([n \in DOMAIN passive_patterns |->
                                 passive_matches(passive_patterns[n], text)])
    IN  [k \in DOMAIN phrases |->
            [type       |-> "passive_voice",
             severity   |-> "low",
             phrase     |-> phrases[k],
             message    |-> "Passive voice detected: \"" \o phrases[k] \o "\"",
             suggestion |-> "Use active voice with strong action verbs"]]

first_person == <<"I ", "my ", "me ", "mine ", "we ", "our ", "us ">>

_check_first_person(text) ==
    The({LET counts == [n \in DOMAIN first_person |-> Count(first_person[n], lowered)]
             used   == SelectSeq([n \in DOMAIN first_person |-> n],
                                 LAMBDA n : counts[n] > 0)
         IN  [k \in DOMAIN used |->
                 [type       |-> "first_person",
                  severity   |-> "medium",
                  pronoun    |-> Strip(first_person[used[k]]),
                  count      |-> counts[used[k]],
                  message    |-> "First person pronoun \""
                                     \o Strip(first_person[used[k]]) \o "\" used "
                                     \o ToString(counts[used[k]]) \o " time(s)",
                  suggestion |-> "Remove first person pronouns; use direct statements"]]
         : lowered \in {Lower(" " \o text \o " ")}})

_check_repetition(text) ==
    The({LET counts   == [n \in DOMAIN action_verbs |-> Count(action_verbs[n], lowered)]
             \* action_verb_counts, in insertion order, cut to its first three
             repeated == Take(SelectSeq([n \in DOMAIN action_verbs |-> n],
                                        LAMBDA n : counts[n] > 3), 3)
         IN  [k \in DOMAIN repeated |->
                 [type       |-> "repetition",
                  severity   |-> "low",
                  word       |-> action_verbs[repeated[k]],
                  count      |-> counts[repeated[k]],
                  message    |-> "\"" \o action_verbs[repeated[k]] \o "\" used "
                                     \o ToString(counts[repeated[k]]) \o " times",
                  suggestion |-> "Vary your action verbs for better impact"]]
         : lowered \in {Lower(text)}})

\* as readability_of, the bands read as ranges of whole numbers: 10 to 14,
\* 21 to 25, 26 to 30
readability_of_whole_bands(avg_words_per_sentence) ==
    IF RLeq(R(15), avg_words_per_sentence) /\ RLeq(avg_words_per_sentence, R(20))
    THEN R(100)
    ELSE IF RLeq(R(10), avg_words_per_sentence) /\ RLeq(avg_words_per_sentence, R(14))
    THEN R(90)
    ELSE IF RLeq(R(21), avg_words_per_sentence) /\ RLeq(avg_words_per_sentence, R(25))
    THEN R(85)
    ELSE IF RLeq(R(26), avg_words_per_sentence) /\ RLeq(avg_words_per_sentence, R(30))
    THEN R(70)
    ELSE R(60)

\* the score chosen from the average number of words in a sentence
readability_of(avg_words_per_sentence) ==
    IF RLeq(R(15), avg_words_per_sentence) /\ RLeq(avg_words_per_sentence, R(20))
    THEN R(100)
    ELSE IF RLeq(R(10), avg_words_per_sentence) /\ RLess(avg_words_per_sentence, R(15))
    THEN R(90)
    ELSE IF RLess(R(20), avg_words_per_sentence) /\ RLeq(avg_words_per_sentence, R(25))
    THEN R(85)
    ELSE IF RLess(R(25), avg_words_per_sentence) /\ RLeq(avg_words_per_sentence, R(30))
    THEN R(70)
    ELSE R(60)

\* as _calculate_readability, without the two returns for a text that has no
\* sentence
_calculate_readability_no_guard(text) ==
    The({LET total_sentences == Cardinality({n \in DOMAIN pieces :
                                                Strip(pieces[n]) # ""})
             avg == Div(R(WordCount(text)), R(total_sentences))
         IN  IF avg = ZeroDivisionError THEN avg ELSE Round(readability_of(avg), 1)
         : pieces \in {SplitOn(text, {".", "!", "?"})}})

\* the sentences are the pieces between the characters . ! ? that are not
\* blank (a run of these characters leaves only blank pieces inside it)
_calculate_readability(text) ==
    The({LET total_sentences == Cardinality({n \in DOMAIN pieces :
                                                Strip(pieces[n]) # ""})
             avg == Div(R(WordCount(text)), R(total_sentences))
         IN  IF total_sentences = 0 THEN R(50)
             ELSE IF avg = ZeroDivisionError THEN avg
             ELSE Round(readability_of(avg), 1)
         : pieces \in {SplitOn(text, {".", "!", "?"})}})

_count_action_verbs(text) ==
    The({Cardinality({n \in DOMAIN action_verbs : Contains(action_verbs[n], text_lower)})
         : text_lower \in {Lower(text)}})

_get_general_suggestions(issues) ==
    LET issue_types == {issues[k].type : k \in DOMAIN issues}
    IN  (IF "weak_language" \in issue_types
         THEN <<"Use strong action verbs to start bullet points">> ELSE <<>>)
        \o (IF "passive_voice" \in issue_types
            THEN <<"Convert passive voice to active voice for impact">> ELSE <<>>)
        \o (IF "first_person" \in issue_types
            THEN <<"Remove first person pronouns (I, my, we, our)">> ELSE <<>>)
        \o (IF Len(issues) < 3
            THEN <<"Great job! Your resume has strong language">> ELSE <<>>)

\* as check, the last 20 issues kept (issues[-20:])
check_last_twenty(text, choices) ==
    The({IF readability = ZeroDivisionError THEN ZeroDivisionError
         ELSE LET issues == weak_lang_issues \o _check_spelling(text)
                              \o _check_passive_voice(text)
                              \o _check_first_person(text)
                              \o _check_repetition(text)
              IN  [total_issues      |-> Len(issues),
                   issues            |-> SubSeq(issues, IF Len(issues) > 20
                                                      THEN Len(issues) - 19 ELSE 1,
                                                  Len(issues)),
                   readability_score |-> readability,
                   action_verb_count |-> _count_action_verbs(text),
                   weak_phrase_count |-> Len(weak_lang_issues),
                   suggestions       |-> _get_general_suggestions(issues)]
         : weak_lang_issues \in {_check_weak_language(text, choices)},
           readability      \in {_calculate_readability(text)}})

\* as check, the general suggestions derived from the 20 issues kept
check_suggesting_from_kept(text, choices) ==
    The({IF readability = ZeroDivisionError THEN ZeroDivisionError
         ELSE LET issues == weak_lang_issues \o _check_spelling(text)
                              \o _check_passive_voice(text)
                              \o _check_first_person(text)
                              \o _check_repetition(text)
              IN  [total_issues      |-> Len(issues),
                   issues            |-> Take(issues, 20),
                   readability_score |-> readability,
                   action_verb_count |-> _count_action_verbs(text),
                   weak_phrase_count |-> Len(weak_lang_issues),
                   suggestions       |-> _get_general_suggestions(Take(issues, 20))]
         : weak_lang_issues \in {_check_weak_language(text, choices)},
           readability      \in {_calculate_readability(text)}})

\* GrammarChecker.check; choices are the draws of random.choice, one for each
\* weak phrase found
check(text, choices) ==
    The({IF readability = ZeroDivisionError THEN ZeroDivisionError
         ELSE LET issues == weak_lang_issues \o _check_spelling(text)
                              \o _check_passive_voice(text)
                              \o _check_first_person(text)
                              \o _check_repetition(text)
              IN  [total_issues      |-> Len(issues),
                   issues            |-> Take(issues, 20),
                   readability_score |-> readability,
                   action_verb_count |-> _count_action_verbs(text),
                   weak_phrase_count |-> Len(weak_lang_issues),
                   suggestions       |-> _get_general_suggestions(issues)]
         : weak_lang_issues \in {_check_weak_language(text, choices)},
           readability      \in {_calculate_readability(text)}})

(***************************************************************************)
(* ResumeOptimizer (optimizer.py).  The bullet character of the examples   *)
(* is written "*".                                                         *)
(***************************************************************************)
\* self.ats_friendly_sections, in dict insertion order
AtsFriendlySections ==
    <<[non_standard |-> "about me",                standard |-> "Summary"],
      [non_standard |-> "profile",                 standard |-> "Summary"],
      [non_standard |-> "career summary",          standard |-> "Professional Summary"],
      [non_standard |-> "work history",            standard |-> "Work Experience"],
      [non_standard |-> "employment history",      standard |-> "Work Experience"],
      [non_standard |-> "professional experience", standard |-> "Work Experience"],
      [non_standard |-> "technical skills",        standard |-> "Skills"],
      [non_standard |-> "core competencies",       standard |-> "Skills"],
      [non_standard |-> "expertise",               standard |-> "Skills"],
      [non_standard |-> "academic background",     standard |-> "Education"],
      [non_standard |-> "qualifications",          standard |-> "Education"]>>

\* dict.get(key, default) on an issue
Get(issue, key, default) == IF key \in DOMAIN issue THEN issue[key] ELSE default

\* issue.get(key) == value, for a value that is not None
GetIs(issue, key, value) == key \in DOMAIN issue /\ issue[key] = value

\* s.replace(old, new), for a non-empty old
RECURSIVE ReplaceFrom(_, _, _, _, _)
ReplaceFrom(s, old, new, at, i) ==
    IF at = <<>> THEN SubSeq(s, i, Len(s))
    ELSE SubSeq(s, i, Head(at) - 1) \o new
             \o ReplaceFrom(s, old, new, Tail(at), Head(at) + Len(old))

Replace(s, old, new) ==
    ReplaceFrom(s, old, new,
                ScanFrom([i \in 1..Len(s) |-> IF StartsAt(old, s, i) THEN Len(old) ELSE 0], 1),
                1)

\* the entries appended for one line of the text: the first entry of the
\* table that the line contains and does not already equal
header_suggestions(line) ==
    LET line_stripped == StripLine(line)
        line_lower    == Lower(line_stripped)
        hits == {n \in DOMAIN ats_friendly_sections :
                    /\ Contains(ats_friendly_sections[n].non_standard, line_lower)
                    /\ line_lower # Lower(ats_friendly_sections[n].standard)}
    IN  IF Len(line_stripped) < 50 /\ WordCount(line_stripped) <= 4 /\ hits # {}
        THEN <<[current   |-> line_stripped,
                suggested |-> ats_friendly_sections[MinOf(hits)].standard,
                reason    |-> "ATS-friendly standard section header"]>>
        ELSE <<>>

_optimize_section_headers(text) ==
    The({Take(ConcatAll([n \in DOMAIN lines |-> header_suggestions(lines[n])]), 5)
         : lines \in {SplitOn(text, {"\n"})}})

_identify_sections(text) ==
    The({[summary        |-> \E word \in {"summary", "objective", "profile"} :
                                Contains(word, text_lower),
          experience     |-> \E word \in {"experience", "employment", "work history"} :
                                Contains(word, text_lower),
          education      |-> Contains("education", text_lower),
          skills         |-> \E word \in {"skills", "technical", "competencies"} :
                                Contains(word, text_lower),
          certifications |-> \E word \in {"certification", "certificate", "license"} :
                                Contains(word, text_lower)]
         : text_lower \in {Lower(text)}})

\* the placement list built for one keyword; "x in sections" asks whether x
\* is a key of the dict
placements_for(keyword, sections) ==
    (IF "skills" \in DOMAIN sections
     THEN <<[section    |-> "Skills",
             suggestion |-> "Add \"" \o keyword \o "\" to your technical skills list",
             example    |-> "* " \o keyword]>>
     ELSE <<>>)
    \o (IF "experience" \in DOMAIN sections
        THEN <<[section    |-> "Work Experience",
                suggestion |-> "Incorporate \"" \o keyword \o "\" into a bullet point",
                example    |-> "* Utilized " \o keyword \o " to [specific achievement]"]>>
        ELSE <<>>)
    \o (IF "summary" \in DOMAIN sections
        THEN <<[section    |-> "Summary",
                suggestion |-> "Mention \"" \o keyword \o "\" in your professional summary",
                example    |-> "Experienced in " \o keyword \o " with proven track record"]>>
        ELSE <<>>)

_suggest_keyword_placement(text, missing_keywords) ==
    The({LET first == Take(missing_keywords, 10)
         IN  ConcatAll([k \in DOMAIN first |->
                 IF placements_for(first[k], sections) # <<>>
                 THEN <<[keyword    |-> first[k],
                         placements |-> placements_for(first[k], sections)]>>
                 ELSE <<>>])
         : sections \in {_identify_sections(text)}})

_optimize_formatting(ats_issues) ==
    LET first == Take(ats_issues, 5)
    IN  ConcatAll([k \in DOMAIN first |->
            IF first[k].type = "tables"
            THEN <<[issue    |-> "Tables detected",
                    fix      |-> "Convert tables to simple text format with bullet points",
                    priority |-> "high"]>>
            ELSE IF first[k].type = "headers"
            THEN <<[issue    |-> "Non-standard section headers",
                    fix      |-> "Use standard headers: Summary, Work Experience, Education, Skills",
                    priority |-> "high"]>>
            ELSE IF first[k].type = "special_chars"
            THEN <<[issue    |-> "Special characters detected",
                    fix      |-> "Replace decorative symbols with simple bullet points (*)",
                    priority |-> "medium"]>>
            ELSE <<>>])

\* re.search(r'\d+%|\$\d+|\d+\s*(million|billion|thousand)', text)
content_has_metrics(text) ==
    \E i \in 1..Len(text) :
        \/ /\ Ch(text, i) \in DigitSet
           /\ \/ StartsAt("%", text, i + 1)
              \/ \E unit \in {"million", "billion", "thousand"} :
                    StartsAt(unit, text, i + 1 + RunLen(text, i + 1, SpaceSet))
        \/ /\ Ch(text, i) = "$"
           /\ i < Len(text) /\ Ch(text, i + 1) \in DigitSet

_optimize_content(text, missing_keywords) ==
    LET has_metrics == content_has_metrics(text)
        action_verbs_checked == {"achieved", "improved", "developed", "led", "created",
                                 "implemented"}
        has_action_verbs == The({\E verb \in action_verbs_checked :
                                    Contains(verb, text_lower)
                                 : text_lower \in {Lower(text)}})
    IN  (IF ~has_metrics
         THEN <<[area       |-> "Quantifiable Achievements",
                 suggestion |-> "Add measurable results and metrics to your bullet points",
                 examples   |-> <<"Increased revenue by 25%",
                                  "Reduced load time by 40%",
                                  "Managed team of 5 developers">>]>>
         ELSE <<>>)
        \o (IF ~has_action_verbs
            THEN <<[area       |-> "Action Verbs",
                    suggestion |-> "Start bullet points with strong action verbs",
                    examples   |-> <<"Developed", "Implemented", "Led", "Achieved",
                                     "Optimized">>]>>
            ELSE <<>>)
        \o (IF missing_keywords # <<>>
            THEN <<[area       |-> "Technical Skills",
                    suggestion |-> "Add relevant technical skills from job description",
                    examples   |-> Take(missing_keywords, 5)]>>
            ELSE <<>>)

templates ==
    <<"Developed {keyword}-based solutions that improved {metric} by {percentage}%",
      "Implemented {keyword} to optimize {area}, resulting in {benefit}",
      "Led team using {keyword} to deliver {outcome} ahead of schedule",
      "Architected scalable {keyword} system supporting {number} users",
      "Utilized {keyword} to reduce {metric} by {percentage}%">>

\* as fill_template, the slot {number} left as it is
fill_template_number_unfilled(template, keyword) ==
    Replace(Replace(Replace(Replace(Replace(Replace(template,
        "{keyword}", keyword),
        "{metric}", "performance"),
        "{percentage}", "30"),
        "{area}", "workflow"),
        "{benefit}", "faster deployment cycles"),
        "{outcome}", "production release")

\* the statement made from a template for a keyword
fill_template(template, keyword) ==
    Replace(Replace(Replace(Replace(Replace(Replace(Replace(template,
        "{keyword}", keyword),
        "{metric}", "performance"),
        "{percentage}", "30"),
        "{area}", "workflow"),
        "{benefit}", "faster deployment cycles"),
        "{outcome}", "production release"),
        "{number}", "10,000+")

\* choices[k] is the index random.choice draws for the k-th keyword
_create_impact_statements(missing_keywords, choices) ==
    LET first == Take(missing_keywords, 5)
    IN  [k \in DOMAIN first |->
            [keyword |-> first[k],
             example |-> fill_template(templates[choices[k]], first[k]),
             tip     |-> "Customize this example with your actual achievements"]]

\* as _prioritize_fixes, the entry for the missing keywords appended after the
\* other three groups
_prioritize_fixes_keywords_last(ats_issues, grammar_issues, missing_keywords) ==
    LET high_severity_ats ==
            SelectSeq(ats_issues, LAMBDA issue : GetIs(issue, "severity", "high"))
        high_severity_grammar ==
            SelectSeq(grammar_issues, LAMBDA issue : GetIs(issue, "severity", "high"))
        medium_severity_ats ==
            SelectSeq(ats_issues, LAMBDA issue : GetIs(issue, "severity", "medium"))
        ats_fix(priority, issue) ==
            [priority |-> priority,
             category |-> "ATS Compatibility",
             issue    |-> Get(issue, "message", ""),
             fix      |-> Get(issue, "fix", "")]
        priorities ==
            [k \in DOMAIN Take(high_severity_ats, 3) |-> ats_fix(1, high_severity_ats[k])]
            \o [k \in DOMAIN Take(high_severity_grammar, 2) |->
                   [priority |-> 2,
                    category |-> "Grammar & Style",
                    issue    |-> Get(high_severity_grammar[k], "message", ""),
                    fix      |-> Get(high_severity_grammar[k], "suggestion", "")]]
            \o [k \in DOMAIN Take(medium_severity_ats, 2) |->
                   ats_fix(2, medium_severity_ats[k])]
            \o (IF Len(missing_keywords) > 5
                THEN <<[priority |-> 1,
                        category |-> "Keywords",
                        issue    |-> ToString(Len(missing_keywords))
                                         \o " important keywords missing",
                        fix      |-> "Add key terms: "
                                         \o Join(Take(missing_keywords, 5), ", ")]>>
                ELSE <<>>)
    IN  Take(priorities, 10)

\* as _prioritize_fixes, the compliance issues selected on their 'priority'
\* key, which no compliance issue has
_prioritize_fixes_by_priority_key(ats_issues, grammar_issues, missing_keywords) ==
    LET high_severity_ats ==
            SelectSeq(ats_issues, LAMBDA issue : GetIs(issue, "priority", "high"))
        high_severity_grammar ==
            SelectSeq(grammar_issues, LAMBDA issue : GetIs(issue, "severity", "high"))
        medium_severity_ats ==
            SelectSeq(ats_issues, LAMBDA issue : GetIs(issue, "priority", "medium"))
        ats_fix(priority, issue) ==
            [priority |-> priority,
             category |-> "ATS Compatibility",
             issue    |-> Get(issue, "message", ""),
             fix      |-> Get(issue, "fix", "")]
        priorities ==
            [k \in DOMAIN Take(high_severity_ats, 3) |-> ats_fix(1, high_severity_ats[k])]
            \o (IF Len(missing_keywords) > 5
                THEN <<[priority |-> 1,
                        category |-> "Keywords",
                        issue    |-> ToString(Len(missing_keywords))
                                         \o " important keywords missing",
                        fix      |-> "Add key terms: "
                                         \o Join(Take(missing_keywords, 5), ", ")]>>
                ELSE <<>>)
            \o [k \in DOMAIN Take(high_severity_grammar, 2) |->
                   [priority |-> 2,
                    category |-> "Grammar & Style",
                    issue    |-> Get(high_severity_grammar[k], "message", ""),
                    fix      |-> Get(high_severity_grammar[k], "suggestion", "")]]
            \o [k \in DOMAIN Take(medium_severity_ats, 2) |->
                   ats_fix(2, medium_severity_ats[k])]
    IN  Take(priorities, 10)

_prioritize_fixes(ats_issues, grammar_issues, missing_keywords) ==
    LET high_severity_ats ==
            SelectSeq(ats_issues, LAMBDA issue : GetIs(issue, "severity", "high"))
        high_severity_grammar ==
            SelectSeq(grammar_issues, LAMBDA issue : GetIs(issue, "severity", "high"))
        medium_severity_ats ==
            SelectSeq(ats_issues, LAMBDA issue : GetIs(issue, "severity", "medium"))
        ats_fix(priority, issue) ==
            [priority |-> priority,
             category |-> "ATS Compatibility",
             issue    |-> Get(issue, "message", ""),
             fix      |-> Get(issue, "fix", "")]
        priorities ==
            [k \in DOMAIN Take(high_severity_ats, 3) |-> ats_fix(1, high_severity_ats[k])]
            \o (IF Len(missing_keywords) > 5
                THEN <<[priority |-> 1,
                        category |-> "Keywords",
                        issue    |-> ToString(Len(missing_keywords))
                                         \o " important keywords missing",
                        fix      |-> "Add key terms: "
                                         \o Join(Take(missing_keywords, 5), ", ")]>>
                ELSE <<>>)
            \o [k \in DOMAIN Take(high_severity_grammar, 2) |->
                   [priority |-> 2,
                    category |-> "Grammar & Style",
                    issue    |-> Get(high_severity_grammar[k], "message", ""),
                    fix      |-> Get(high_severity_grammar[k], "suggestion", "")]]
            \o [k \in DOMAIN Take(medium_severity_ats, 2) |->
                   ats_fix(2, medium_severity_ats[k])]
    IN  Take(priorities, 10)

\* ResumeOptimizer.optimize; choices are the draws of random.choice, one for
\* each impact statement
optimize(text, missing_keywords, ats_issues, grammar_issues, choices) ==
    [section_headers   |-> _optimize_section_headers(text),
     keyword_placement |-> _suggest_keyword_placement(text, missing_keywords),
     formatting        |-> _optimize_formatting(ats_issues),
     content           |-> _optimize_content(text, missing_keywords),
     impact_statements |-> _create_impact_statements(missing_keywords, choices),
     priority_fixes    |-> _prioritize_fixes(ats_issues, grammar_issues,
                                             missing_keywords)]

(***************************************************************************)
(* ResumeParser                                                            *)
(***************************************************************************)
\* ResumeParser.section_keywords, in the order of the dict
SectionKeywords ==
    <<[name |-> "contact",
       keywords |-> <<"email", "phone", "address", "linkedin", "github">>],
      [name |-> "summary",
       keywords |-> <<"summary", "objective", "profile", "about">>],
      [name |-> "experience",
       keywords |-> <<"experience", "employment", "work history",
                      "professional experience">>],
      [name |-> "education",
       keywords |-> <<"education", "academic", "university", "college", "degree">>],
      [name |-> "skills",
       keywords |-> <<"skills", "technical skills", "technologies", "competencies">>],
      [name |-> "certifications",
       keywords |-> <<"certifications", "certificates", "licenses">>],
      [name |-> "projects",
       keywords |-> <<"projects", "portfolio">>],
      [name |-> "achievements",
       keywords |-> <<"achievements", "awards", "honors", "accomplishments">>]>>

\* matched_section after the inner loop over section_keywords.items(): the
\* first section one of whose keywords the line holds, if the line looks like
\* a header; "" stands for None (the code tests it for truth only)
matched_section_of(line) ==
    The({IF hits = {} THEN "" ELSE section_keywords[MinOf(hits)].name
         : hits \in {{n \in DOMAIN section_keywords :
                        /\ \E k \in DOMAIN section_keywords[n].keywords :
                              Contains(section_keywords[n].keywords[k], line_lower)
                        /\ WordCount(line) <= 5
                        /\ Len(StripLine(line)) < 50}
                     : line_lower \in {Lower(StripLine(line))}}})

\* sections[current_section] = '\n'.join(section_content), when there is a
\* current section and it has content
save_section(sections, current_section, section_content) ==
    IF current_section # "" /\ section_content # <<>>
    THEN (current_section :> Join(section_content, "\n")) @@ sections
    ELSE sections

\* the loop of _identify_sections from line i on
RECURSIVE identify_from(_, _, _, _, _)
identify_from(lines, i, sections, current_section, section_content) ==
    IF i > Len(lines)
    THEN save_section(sections, current_section, section_content)
    ELSE LET matched_section == matched_section_of(lines[i])
         IN  IF matched_section # ""
             THEN identify_from(lines, i + 1,
                                save_section(sections, current_section, section_content),
                                matched_section, <<>>)
             ELSE IF current_section # ""
             THEN identify_from(lines, i + 1, sections, current_section,
                                Append(section_content, lines[i]))
             ELSE identify_from(lines, i + 1, sections, current_section,
                                section_content)

\* ResumeParser._identify_sections
ResumeParser_identify_sections(text) ==
    identify_from(SplitOn(text, {"\n"}), 1, <<>>, "", <<>>)

(***************************************************************************)
(* Python float arithmetic (IEEE 754 binary64, round to nearest, ties to   *)
(* even).  A natural number is the list of its digits in base 2^15, least  *)
(* significant first; a float is [m, e], of value m * 2^e, with m of at    *)
(* most 53 bits after every operation.                                     *)
(***************************************************************************)
Base == 2^15

\* the natural number without leading zero digits
RECURSIVE Norm(_)
Norm(a) == IF a # <<>> /\ a[Len(a)] = 0 THEN Norm(SubSeq(a, 1, Len(a) - 1)) ELSE a

\* the digits of an int
RECURSIVE BigOf(_)
BigOf(n) == IF n = 0 THEN <<>> ELSE <<n % Base>> \o BigOf(n \div Base)

\* the int of at most two digits
IntOf(a) == IF a = <<>> THEN 0 ELSE IF Len(a) = 1 THEN a[1] ELSE a[1] + Base * a[2]

Limb(a, i) == IF i <= Len(a) THEN a[i] ELSE 0

RECURSIVE AddCarry(_, _, _, _)
AddCarry(a, b, i, carry) ==
    IF i > Len(a) /\ i > Len(b) THEN BigOf(carry)
    ELSE LET sum == Limb(a, i) + Limb(b, i) + carry
         IN  <<sum % Base>> \o AddCarry(a, b, i + 1, sum \div Base)

BigAdd(a, b) == AddCarry(a, b, 1, 0)

\* a * k for an int k < Base
RECURSIVE MulCarry(_, _, _, _)
MulCarry(a, k, i, carry) ==
    IF i > Len(a) THEN BigOf(carry)
    ELSE LET product == a[i] * k + carry
         IN  <<product % Base>> \o MulCarry(a, k, i + 1, product \div Base)

MulSmall(a, k) == Norm(MulCarry(a, k, 1, 0))

\* a * Base^n
ShiftLimbs(a, n) == IF a = <<>> THEN <<>> ELSE [j \in 1..n |-> 0] \o a

RECURSIVE MulFrom(_, _, _)
MulFrom(a, b, i) ==
    IF i > Len(b) THEN <<>>
    ELSE BigAdd(ShiftLimbs(MulSmall(a, b[i]), i - 1), MulFrom(a, b, i + 1))

BigMul(a, b) == Norm(MulFrom(a, b, 1))

\* quotient and remainder of a by an int k, 0 < k <= Base, from the digit i down
RECURSIVE DivFrom(_, _, _, _)
DivFrom(a, k, i, rem) ==
    IF i = 0 THEN [quot |-> <<>>, rem |-> rem]
    ELSE LET current == rem * Base + a[i]
             lower   == DivFrom(a, k, i - 1, current % k)
         IN  [quot |-> Append(lower.quot, current \div k), rem |-> lower.rem]

DivSmall(a, k) ==
    The({[quot |-> Norm(r.quot), rem |-> r.rem] : r \in {DivFrom(a, k, Len(a), 0)}})

\* a * 2^bits and a \div 2^bits
ShiftLeft(a, bits) == ShiftLimbs(MulSmall(a, 2^(bits % 15)), bits \div 15)
ShiftRight(a, bits) ==
    IF bits \div 15 >= Len(a) THEN <<>>
    ELSE DivSmall(SubSeq(a, (bits \div 15) + 1, Len(a)), 2^(bits % 15)).quot

\* the number of bits of a
BitLen(a) ==
    IF a = <<>> THEN 0
    ELSE 15 * (Len(a) - 1) + MinOf({b \in 1..15 : a[Len(a)] < 2^b})

IsOdd(a) == a # <<>> /\ a[1] % 2 = 1

\* the float nearest to n * 2^e (or to a value just above it, when inexact:
\* n then has more than 54 bits), ties to the even mantissa
Double(n, e, inexact) ==
    The({IF len <= 53 THEN [m |-> n, e |-> e]
         ELSE The({[m |-> IF IsOdd(kept) /\ (IsOdd(ShiftRight(kept, 1)) \/ inexact
                                              \/ ShiftLeft(kept, len - 54) # n)
                          THEN BigAdd(ShiftRight(kept, 1), <<1>>)
                          ELSE ShiftRight(kept, 1),
                    e |-> e + len - 53]
                   \* the 53 bits kept and the bit after them
                   : kept \in {ShiftRight(n, len - 54)}})
         : len \in {BitLen(n)}})

\* float(n) for an int 0 <= n < 2^30
FloatOf(n) == [m |-> BigOf(n), e |-> 0]

\* a / b for ints 0 <= a, 0 < b < Base: the quotient of a * 2^60 by b, rounded
TrueDiv(a, b) ==
    IF a = 0 THEN FloatOf(0)
    ELSE The({Double(q.quot, 0 - 60, q.rem # 0)
              : q \in {DivSmall(ShiftLeft(BigOf(a), 60), b)}})

FMul(x, y) == Double(BigMul(x.m, y.m), x.e + y.e, FALSE)

FAdd(x, y) ==
    IF x.m = <<>> THEN y
    ELSE IF y.m = <<>> THEN x
    ELSE The({Double(BigAdd(ShiftLeft(x.m, x.e - e), ShiftLeft(y.m, y.e - e)), e, FALSE)
              : e \in {IF x.e < y.e THEN x.e ELSE y.e}})

\* int(x) for a float x >= 0 below 2^30
IntOfFloat(x) ==
    IF x.e >= 0 THEN IntOf(ShiftLeft(x.m, x.e)) ELSE IntOf(ShiftRight(x.m, 0 - x.e))

\* the float literal with the digits n and d decimals: n / 10^d, rounded
Literal(n, d) == TrueDiv(n, Pow10(d))

(***************************************************************************)
(* BotAudit and the endpoint match_job (app.py).  The warning sign that    *)
(* begins every warning is written "!".                                    *)
(***************************************************************************)
\* re.findall(r'\b[a-zA-Z]{4,}\b', text): the words (runs of word characters)
\* of at least four characters that are letters only, in text order
LetterWords(text) ==
    LET starts == SelectSeq([i \in 1..Len(text) |-> i],
                            LAMBDA i : /\ IsWordAt(text, i) /\ WordBoundary(text, i)
                                       /\ RunLen(text, i, WordSet) >= 4
                                       /\ RunLen(text, i, UpperSet \cup LowerSet)
                                              = RunLen(text, i, WordSet))
    IN  [k \in DOMAIN starts |->
            SubSeq(text, starts[k], starts[k] + RunLen(text, starts[k], WordSet) - 1)]

stop_words == {"that", "with", "have", "this", "will", "from", "they", "been", "were",
               "when", "what", "where", "there", "these", "those", "then", "than"}

\* the distinct entries of a list, in the order of their first occurrence
RECURSIVE Distinct(_)
Distinct(q) ==
    IF q = <<>> THEN <<>>
    ELSE LET front == Distinct(SubSeq(q, 1, Len(q) - 1))
         IN  IF q[Len(q)] \in Range(front) THEN front ELSE Append(front, q[Len(q)])

\* [w for w, count in Counter(q).most_common(n)]: by falling count, entries
\* of equal count in the order of their first occurrence
most_common(q, n) ==
    The({Take([k \in DOMAIN order |->
                  order[CHOOSE i \in DOMAIN order :
                           Cardinality({j \in DOMAIN order :
                                           \/ count[j] > count[i]
                                           \/ count[j] = count[i] /\ j < i}) = k - 1]],
              n)
         : count \in {[i \in DOMAIN order |->
                          Cardinality({p \in DOMAIN q : q[p] = order[i]})]
                      : order \in {Distinct(q)}},
           order \in {Distinct(q)}})

\* BotAudit.extract_keywords without the spaCy model (the fallback method)
extract_keywords(text, max_keywords) ==
    most_common(SelectSeq(LetterWords(Lower(text)), LAMBDA w : w \notin stop_words),
                max_keywords)

\* BotAudit.check_bot_safety; structure_audit is None or the result of
\* parse_and_audit_structure
check_bot_safety(text, structure_audit) ==
    IF StartsAt("CRITICAL_ERROR_IMAGE_ONLY", text, 1)
    THEN [safety_score |-> 0, is_bot_readable |-> FALSE,
          critical_warnings |-> <<"! CRITICAL: PDF is an image. ATS sees 0 words. Convert to text-based PDF.">>,
          layout_risk |-> "CRITICAL"]
    ELSE IF StartsAt("PDF_PROCESSING_FAILED", text, 1)
    THEN [safety_score |-> 20, is_bot_readable |-> FALSE,
          critical_warnings |-> <<"! PDF processing failed. Try converting to .docx format.">>,
          layout_risk |-> "HIGH"]
    ELSE IF StartsAt("PARSING_FAILED", text, 1)
    THEN [safety_score |-> 0, is_bot_readable |-> FALSE,
          critical_warnings |-> <<"! File parsing failed. Check file format and try again.">>,
          layout_risk |-> "CRITICAL"]
    ELSE
    LET columns  == Contains("\t", text) \/ Contains("     ", text)
        tables   == structure_audit # None /\ structure_audit.table_detected
        header   == structure_audit # None /\ structure_audit.contact_in_header
        found_sections == SelectSeq(<<"experience", "education", "skills", "summary">>,
                                    LAMBDA s : Contains(s, Lower(text)))
        sections == Len(found_sections) < 3
        safety_score == 100 - (IF columns THEN 25 ELSE 0) - (IF tables THEN 30 ELSE 0)
                            - (IF header THEN 25 ELSE 0) - (IF sections THEN 15 ELSE 0)
    IN  [safety_score |-> IF safety_score > 0 THEN safety_score ELSE 0,
         is_bot_readable |-> safety_score > 70,
         critical_warnings |->
             (IF columns
              THEN <<"! Multi-column layout detected. ATS may scramble text order.">>
              ELSE <<>>)
             \o (IF tables
                 THEN <<"! Tables detected. Convert to simple bullet points.">>
                 ELSE <<>>)
             \o (IF header
                 THEN <<"! Contact info in header/footer is INVISIBLE to ATS bots.">>
                 ELSE <<>>)
             \o (IF sections
                 THEN <<"! Missing standard section headers. Use: Experience, Education, Skills">>
                 ELSE <<>>),
         layout_risk |-> IF safety_score < 50 THEN "HIGH"
                         ELSE IF safety_score < 80 THEN "MEDIUM" ELSE "LOW",
         found_sections |-> found_sections]

\* int((keyword_score * 0.6) + (safety_score * 0.4)), keyword_score the float
\* len(matched_keywords) / len(job_keywords) * 100, or the int 0
weighted_ats_score(matched, total, safety_score) ==
    IntOfFloat(FAdd(FMul(IF total = 0 THEN FloatOf(0)
                         ELSE FMul(TrueDiv(matched, total), FloatOf(100)),
                         Literal(6, 1)),
                    FMul(FloatOf(safety_score), Literal(4, 1))))

\* the body of match_job after the file is read; parsed_result is None or
\* the result of parse_and_audit_structure on the uploaded file.  The entries
\* made from analyze_advanced_metrics (which calls textstat) and the rounded
\* keyword score are not part of the model.
match_job(form_resume_text, job_description, parsed_result) ==
    The({
    The({
    The({[success |-> TRUE,
          ats_score |-> ats_score,
          overall_grade |-> IF ats_score >= 85 THEN "A"
                            ELSE IF ats_score >= 70 THEN "B"
                            ELSE IF ats_score >= 55 THEN "C" ELSE "D",
          keyword_analysis |->
              [matched_keywords |-> matched_keywords,
               missing_keywords |-> missing_keywords,
               total_job_keywords |-> Len(job_keywords)],
          bot_safety |-> bot_safety,
          recommendations |->
              [priority_fixes |-> Take(bot_safety.critical_warnings, 3)]]
         : ats_score \in {MinOf({95, MaxOf({5, weighted_ats_score(
                              Len(matched_keywords), Len(job_keywords),
                              bot_safety.safety_score)})})}})
      : matched_keywords \in {SelectSeq(job_keywords,
                                        LAMBDA kw : Contains(kw, resume_lower))
                              : resume_lower \in {Lower(text)}},
        missing_keywords \in {Take(SelectSeq(job_keywords,
                                             LAMBDA kw : ~Contains(kw, resume_lower)), 8)
                              : resume_lower \in {Lower(text)}},
        bot_safety \in {check_bot_safety(text, structure_audit)}})
      : job_keywords \in {extract_keywords(Take(job_description, 5000), 15)},
        text \in {Take(IF parsed_result # None /\ parsed_result.parsing_safe
                       THEN parsed_result.text ELSE form_resume_text, 5000)},
        structure_audit \in {IF parsed_result # None /\ parsed_result.parsing_safe
                             THEN parsed_result ELSE None}})

(***************************************************************************)
(* Requests                                                                *)
(***************************************************************************)
ScenarioA_resume == "Experienced in Python and SQL. Increased sales by 20%."
ScenarioA_jd == "Looking for Python, SQL, and AWS experience."

\* all texts of at most n words of W, separated by single spaces
RECURSIVE Phrases(_, _)
Phrases(W, n) ==
    IF n = 0 THEN {""}
    ELSE LET P == Phrases(W, n - 1)
         IN  P \cup {IF p = "" THEN w ELSE p \o " " \o w : p \in P, w \in W}

MaxResumeWords == 2
MaxJdWords == 2
MaxHashSeed == 1

HashSeeds == 0..MaxHashSeed

ResumeWords == {"python", "db"}
JdWords == {"Python", "SQL"}

\* a job text with sixteen keywords, the alphabetically last one used twice
ListingJd == "AWS Azure Docker Django Flask GCP Git Jira Java Kotlin Redis Ruby Rust Scrum Swift Vue Vue"
\* a job text whose keyword sql occurs six times
RepeatedJd == "Sql sql SQl sqL sql SQL aws"

ResumeTexts == Phrases(ResumeWords, MaxResumeWords)
                 \cup {" \n\t", ScenarioA_resume, "Kafka", "AWS.", "python Kafka AWS.",
                       "JavaScript", "db JavaScript"}
JdTexts == Phrases(JdWords, MaxJdWords)
             \cup {" \n\t", ScenarioA_jd, ListingJd, RepeatedJd, "Kafka Kafka AWS",
                   "SQL, Java and AWS", "Java", "Kafka", "Java Kafka",
                   "AWS", "SQL AWS", "We use Node.js and AWS"}

InitMatcher ==
    /\ synonyms = Synonyms
    /\ tech_patterns = TechPatterns
    /\ hash_seed \in HashSeeds

\* ATSChecker.__init__, no call made yet
InitATSChecker ==
    /\ standard_sections = StandardSections
    /\ ats_report = None
    /\ ats_calls = <<>>

\* GrammarChecker.__init__, no call made yet
InitGrammarChecker ==
    /\ weak_phrases = WeakPhrases
    /\ action_verbs = ActionVerbs
    /\ common_errors = CommonErrors
    /\ grammar_report = None

\* ResumeOptimizer.__init__, no call made yet
InitOptimizer ==
    /\ ats_friendly_sections = AtsFriendlySections
    /\ optimization = None
    /\ optimize_args = None

\* the generator of module random before any draw of an analysis; no analysis
\* is under way
InitRandom ==
    /\ random_state = None
    /\ analyses = <<>>

\* ResumeParser.__init__, no call made yet
InitResumeParser ==
    /\ section_keywords = SectionKeywords
    /\ parsed_sections = None

\* BotAudit.__init__ with the spaCy model not loaded, no request served yet
InitBotAudit ==
    /\ nlp = None
    /\ match_response = None

\* the objects outside the four analyzers, before any call on them
InitServices ==
    /\ InitRandom
    /\ InitResumeParser
    /\ InitBotAudit
    /\ parsed_text = ""
    /\ match_request = None
    /\ tfidf = None

Init ==
    /\ InitMatcher
    /\ InitATSChecker
    /\ InitGrammarChecker
    /\ InitOptimizer
    /\ InitServices
    /\ ats_text = ""
    /\ resume_text \in ResumeTexts
    /\ jd_text \in JdTexts
    /\ keywords = <<>>
    /\ result = None
    /\ score_args = None
    /\ score_out = None

\* as MatchResumeJd, with a call that consumes the instance's pattern table
\* (takes the first category out of self.tech_patterns)
MatchResumeJd_consuming_patterns ==
    /\ result' = match_resume_jd(resume_text, jd_text)
    /\ tech_patterns' = IF tech_patterns = <<>> THEN tech_patterns
                        ELSE Tail(tech_patterns)
    /\ UNCHANGED <<synonyms, hash_seed, request, keywords, score_args, score_out, ats,
                   grammar, optimizer,
                   tfidf, concurrent, parser, bot>>

\* a call match_resume_jd(resume_text, jd_text) on the shared instance
MatchResumeJd ==
    /\ result' = match_resume_jd(resume_text, jd_text)
    /\ UNCHANGED <<matcher, request, keywords, score_args, score_out, ats,
                   grammar, optimizer,
                   tfidf, concurrent, parser, bot>>

Next == MatchResumeJd

Spec == Init /\ [][Next]_vars

(***************************************************************************)
(* Calls of _extract_keywords between other calls on the shared instance   *)
(***************************************************************************)
MaxCalls == 2

ExtractTexts == {"", ScenarioA_resume, ScenarioA_jd, "Kafka Kafka AWS"}

InitExtract ==
    /\ InitMatcher
    /\ InitATSChecker
    /\ InitGrammarChecker
    /\ InitOptimizer
    /\ InitServices
    /\ ats_text = ""
    /\ resume_text \in {ScenarioA_resume, "python"}
    /\ jd_text \in {ScenarioA_jd, "Java"}
    /\ keywords = <<>>
    /\ result = None
    /\ score_args = None
    /\ score_out = None

\* a call _matcher._extract_keywords(text)
ExtractKeywords(text) ==
    /\ text \in DOMAIN keywords => keywords[text].calls < MaxCalls
    /\ keywords' =
           The({(text :> (IF text \in DOMAIN keywords
                          THEN [keywords[text] EXCEPT !.last = kws, !.calls = @ + 1]
                          ELSE [first |-> kws, last |-> kws, calls |-> 1]))
                    @@ keywords
                : kws \in {_extract_keywords(text)}})
    /\ UNCHANGED <<matcher, request, result, score_args, score_out, ats,
                   grammar, optimizer,
                   tfidf, concurrent, parser, bot>>

NextExtract ==
    \/ \E text \in ExtractTexts : ExtractKeywords(text)
    \/ MatchResumeJd

SpecExtract == InitExtract /\ [][NextExtract]_vars

(***************************************************************************)
(* _calculate_match_score as a function of its arguments                   *)
(***************************************************************************)
MaxScoreKeywords == 4
ManyKeywords == 1500

\* numbers of occurrences of a keyword in the job text, one for each branch
\* of the idf rule
OccurrenceCounts == {1, 2, 6}

Kw(i) == "kw" \o ToString(i)

\* the arguments match_resume_jd passes for a job text made of n keywords,
\* the m matched ones occurring cm times each and the others co times each
ArgsFor(n, m, cm, co) ==
    LET count == [i \in 1..n |-> IF i <= m THEN cm ELSE co]
        total_words == m * cm + (n - m) * co
    IN  [matches     |-> {Kw(i) : i \in 1..m},
         jd_keywords |-> {Kw(i) : i \in 1..n},
         jd_tfidf    |-> [kw \in {Kw(i) : i \in 1..n} |->
                            LET i == CHOOSE j \in 1..n : Kw(j) = kw
                            IN  RMul(tf_of(count[i], total_words), idf_of(count[i]))]]

\* the arguments match_resume_jd passes for a pair of texts
ArgsOf(r_text, j_text) ==
    The({[matches     |-> _find_matches(resume_keywords, jd_keywords,
                                        Lower(r_text), Lower(j_text)),
          jd_keywords |-> jd_keywords,
          jd_tfidf    |-> _calculate_tfidf(j_text, jd_keywords)]
         : jd_keywords     \in {_extract_keywords(j_text)},
           resume_keywords \in {_extract_keywords(r_text)}})

ScoreArgs ==
    {ArgsFor(n, m, cm, co) : n \in 0..MaxScoreKeywords, m \in 0..MaxScoreKeywords,
                             cm \in OccurrenceCounts, co \in OccurrenceCounts}
    \cup {ArgsFor(ManyKeywords, 1, 1, 5), ArgsFor(ManyKeywords, ManyKeywords - 1, 5, 1)}

\* pairs of a resume and a job text served by match_resume_jd: Scenario A, and
\* a job text whose keywords are matched by name, matched through a synonym and
\* missing
ScorePairs ==
    {<<ScenarioA_resume, ScenarioA_jd>>, <<"db JavaScript", "SQL, Java and AWS AWS">>,
     <<"python Kafka AWS.", "Kafka Kafka AWS">>}

InitScore ==
    /\ InitMatcher
    /\ InitATSChecker
    /\ InitGrammarChecker
    /\ InitOptimizer
    /\ InitServices
    /\ ats_text = ""
    /\ resume_text = ""
    /\ jd_text = ""
    /\ keywords = <<>>
    /\ result = None
    /\ score_args \in {a \in ScoreArgs : a.matches \subseteq a.jd_keywords}
                      \cup {ArgsOf(pair[1], pair[2]) : pair \in ScorePairs}
    /\ score_out = None

\* score = self._calculate_match_score(matches, jd_keywords, jd_tfidf), and
\* the entry 'score': round(score, 1) of the result
CalculateMatchScore ==
    /\ score_out' = The({[score |-> score, rounded |-> Round(score, 1)]
                         : score \in {_calculate_match_score(score_args.matches,
                                                             score_args.jd_keywords,
                                                             score_args.jd_tfidf)}})
    /\ UNCHANGED <<matcher, request, keywords, result, score_args, ats,
                   grammar, optimizer,
                   tfidf, concurrent, parser, bot>>

NextScore == CalculateMatchScore

SpecScore == InitScore /\ [][NextScore]_vars

(***************************************************************************)
(* Calls of check_compatibility                                            *)
(***************************************************************************)
\* s repeated n times
RECURSIVE Repeat(_, _)
Repeat(s, n) ==
    IF n = 0 THEN ""
    ELSE LET half == Repeat(s, n \div 2)
         IN  IF n % 2 = 0 THEN half \o half ELSE half \o half \o s

\* the word counts at which the length rule changes its answer
ShortBelow == 200
LongAbove == 1500

\* pieces a resume text is put together from, each on lines of its own; every
\* piece is one word, or no word at all
TableBlock(n) == Repeat("Skills\t\tPython\n", n)
BoxBlock(n) == IF n = 0 THEN "" ELSE Repeat("~", n) \o "\n"
SymbolBlock(n) == IF n = 0 THEN "" ELSE Repeat("^", n) \o "\n"

HeaderLines == {"", "EDUCATION\n", "HOBBIES\n", "My Hobbies\n", "FUN\n", "hobbies\n"}
ContactLines == {"", "jane.doe@mail.example.com\n", "(555) 123-4567\n", "555123456\n"}
MetricLines == {"", "Grew revenue 20% and 15%\n", "Cut costs 20%, 5% and 10%\n",
                "Served 10 Million users 5 customers, 3thousand\n"}

\* a text extended to n words by a last line of one-letter words
Padded(text, n) ==
    IF WordCount(text) >= n THEN text ELSE text \o Repeat("a ", n - WordCount(text))

\* every combination of the six rules that do not look at the length ...
RuleTexts ==
    {TableBlock(t) \o BoxBlock(b) \o h \o SymbolBlock(x) \o c \o m
        : t \in {0, 4}, b \in {0, 6}, x \in {0, 11}, h \in {"", "HOBBIES\n"},
          c \in {"", "jane.doe@mail.example.com\n"},
          m \in {"", "Cut costs 20%, 5% and 10%\n"}}

\* ... and texts that differ from one of them in a single piece, at and next
\* to the point where a rule changes its answer
EdgeTexts ==
    {TableBlock(t) \o "jane.doe@mail.example.com\n" : t \in {3, 4}}
    \cup {BoxBlock(b) : b \in {5, 6}}
    \cup {SymbolBlock(x) : x \in {10, 11}}
    \cup (HeaderLines \cup ContactLines \cup MetricLines)
    \cup {"Skills" \o Repeat(" ", 10) \o "Python\n" \o TableBlock(3),
          "HOBBIES\nMY PETS\nTRAVEL PLANS\nFAVOURITE FOOD\nOTHER\nMORE\n"}

\* Scenario B: a table block whose first line holds the only phone number of
\* the resume, followed by a line of metrics, the whole of 200 words
ScenarioB_resume ==
    Padded("phone\t\t(555) 123-4567\n" \o TableBlock(3) \o "Cut costs 20%, 5% and 10%\n",
           ShortBelow)

ATSTexts ==
    {ScenarioB_resume} \cup
    {Padded(text, n) : text \in RuleTexts, n \in {0, ShortBelow, LongAbove + 1}}
    \cup {Padded(text, n) : text \in EdgeTexts,
                            n \in {0, ShortBelow - 1, ShortBelow, LongAbove}}

InitATS ==
    /\ synonyms = Synonyms
    /\ tech_patterns = TechPatterns
    /\ hash_seed = 0
    /\ InitATSChecker
    /\ InitGrammarChecker
    /\ InitOptimizer
    /\ InitServices
    /\ resume_text = ""
    /\ jd_text = ""
    /\ keywords = <<>>
    /\ result = None
    /\ score_args = None
    /\ score_out = None
    /\ ats_text \in ATSTexts

\* the record of a call on text that returned report
Called(text, report) ==
    (text :> (IF text \in DOMAIN ats_calls
              THEN [ats_calls[text] EXCEPT !.again = @ \/ ats_text # text]
              ELSE [first |-> report, again |-> FALSE]))
        @@ ats_calls

\* as CheckCompatibilityOf, with a call that also remembers the headers it has
\* accepted by taking them out of self.standard_sections
CheckCompatibilityOf_consuming_sections(text) ==
    /\ ats_text' = text
    /\ \E report \in {check_compatibility(text, "pdf")} :
           /\ ats_report' = report
           /\ ats_calls' = Called(text, report)
    /\ standard_sections' =
           SelectSeq(standard_sections, LAMBDA std : ~Contains(std, Lower(text)))
    /\ UNCHANGED <<matcher, request, keywords, result, score_args, score_out,
                   grammar, optimizer,
                   tfidf, concurrent, parser, bot>>

\* a call check_compatibility(text) (file_type keeps its default)
CheckCompatibilityOf(text) ==
    /\ ats_text' = text
    /\ \E report \in {check_compatibility(text, "pdf")} :
           /\ ats_report' = report
           /\ ats_calls' = Called(text, report)
    /\ UNCHANGED <<matcher, request, keywords, result, score_args, score_out,
                   standard_sections, grammar, optimizer,
                   tfidf, concurrent, parser, bot>>

\* a call check_compatibility(ats_text), the text of the request being served
CheckCompatibility == CheckCompatibilityOf(ats_text)

NextATS == CheckCompatibility

SpecATS == InitATS /\ [][NextATS]_vars

(***************************************************************************)
(* Calls of check_compatibility on several texts, one checker instance     *)
(***************************************************************************)
\* a resume on which no rule fires, and the same resume after a table block
CleanResume ==
    Padded("jane.doe@mail.example.com\n" \o "Cut costs 20%, 5% and 10%\n", ShortBelow)
TableResume == TableBlock(4) \o CleanResume

CallTexts == {CleanResume, TableResume, "EDUCATION\n", "HOBBIES\n", "(555) 123-4567\n"}

InitATSCalls ==
    /\ synonyms = Synonyms
    /\ tech_patterns = TechPatterns
    /\ hash_seed = 0
    /\ InitATSChecker
    /\ InitGrammarChecker
    /\ InitOptimizer
    /\ InitServices
    /\ resume_text = ""
    /\ jd_text = ""
    /\ keywords = <<>>
    /\ result = None
    /\ score_args = None
    /\ score_out = None
    /\ ats_text = ""

NextATSCalls == \E text \in CallTexts : CheckCompatibilityOf(text)

SpecATSCalls == InitATSCalls /\ [][NextATSCalls]_vars

(***************************************************************************)
(* The five operations on degenerate and ordinary texts                    *)
(***************************************************************************)
MaxChoice == 2

\* the indices random.choice(q) may draw (the first MaxChoice of them)
RandomIndex(q) == 1..(IF Len(q) < MaxChoice THEN Len(q) ELSE MaxChoice)

\* empty, blank, without sentence, without keyword
DegenerateTexts == {"", " ", "\n\t ", "...", "?!", "a b c"}

\* a call GrammarChecker.check(resume_text)
Check ==
    /\ \E choices \in [1..Len(weak_phrases_in(resume_text)) -> RandomIndex(action_verbs)] :
           grammar_report' = check(resume_text, choices)
    /\ UNCHANGED <<matcher, request, keywords, result, score_args, score_out, ats,
                   weak_phrases, action_verbs, common_errors, optimizer,
                   tfidf, concurrent, parser, bot>>

\* the lists a caller can pass to optimize: empty ones, and those of the
\* reports made so far
MissingKeywordLists ==
    {<<>>} \cup (IF result \in {None, ZeroDivisionError} THEN {}
                ELSE {result.missing_keywords})
AtsIssueLists ==
    {<<>>} \cup (IF ats_report = None THEN {} ELSE {ats_report.issues})
GrammarIssueLists ==
    {<<>>} \cup (IF grammar_report \in {None, ZeroDivisionError} THEN {}
                ELSE {grammar_report.issues})

\* a call ResumeOptimizer.optimize(resume_text, missing_keywords, ats_issues,
\* grammar_issues) in which random.choice draws choices
OptimizeWith(missing_keywords, ats_issues, grammar_issues, choices) ==
    /\ optimization' = optimize(resume_text, missing_keywords, ats_issues,
                                grammar_issues, choices)
    /\ optimize_args' = [missing_keywords |-> missing_keywords,
                         ats_issues |-> ats_issues,
                         grammar_issues |-> grammar_issues]
    /\ UNCHANGED <<matcher, request, keywords, result, score_args, score_out, ats,
                   grammar, ats_friendly_sections,
                   tfidf, concurrent, parser, bot>>

\* a call of optimize on lists of the reports made so far
Optimize ==
    \E missing_keywords \in MissingKeywordLists, ats_issues \in AtsIssueLists,
       grammar_issues \in GrammarIssueLists :
       \E choices \in [1..Len(Take(missing_keywords, 5)) -> RandomIndex(templates)] :
          OptimizeWith(missing_keywords, ats_issues, grammar_issues, choices)

\* an ordinary job text with two keywords
ShortJd == "Python and SQL"

\* the pairs of texts served: every resume text with an empty and an
\* ordinary job text, and every job text with an empty and an ordinary resume
EnginePairs ==
    ((DegenerateTexts \cup {ScenarioA_resume}) \X {"", ShortJd})
    \cup ({"", ScenarioA_resume} \X DegenerateTexts)

\* (one hash seed: no set of more than one keyword is iterated here)
InitEngine ==
    /\ synonyms = Synonyms
    /\ tech_patterns = TechPatterns
    /\ hash_seed = 0
    /\ InitATSChecker
    /\ InitGrammarChecker
    /\ InitOptimizer
    /\ InitServices
    /\ \E pair \in EnginePairs : resume_text = pair[1] /\ jd_text = pair[2]
    /\ ats_text = resume_text
    /\ keywords = <<>>
    /\ result = None
    /\ score_args = None
    /\ score_out = None

NextEngine ==
    \/ ExtractKeywords(resume_text)
    \/ MatchResumeJd
    \/ CheckCompatibility
    \/ Check
    \/ Optimize

SpecEngine == InitEngine /\ [][NextEngine]_vars

(***************************************************************************)
(* Calls of GrammarChecker.check                                           *)
(***************************************************************************)
MaxSentences == 2

\* a text of w words in k sentences: one sentence of w - k + 1 words, then
\* k - 1 sentences of one word
Sentences(w, k) == Repeat("a ", w - k) \o "a. " \o Repeat("a. ", k - 1)

\* numbers of words that put the average on, and on either side of, the ends
\* of the bands, with one sentence and with two
WordTotals == {1, 9, 10, 14, 15, 17, 19, 20, 21, 25, 26, 29, 30, 31, 34, 40, 41,
               50, 51, 60, 61}

ReadabilityTexts ==
    {Sentences(w, k) : w \in {w \in WordTotals : w >= MaxSentences}, k \in 1..MaxSentences}
    \cup {"a", "a b c", "One. Two! Three? Four", "Wait... what?! a . b"}

\* texts with issues: eight typos, two passive patterns five and six times,
\* three pronouns, a verb used four times, weak phrases
Typos == "experiance recieve occured seperate definately sucessful managment develope. "
Passives == Repeat("It was fixed. ", 5) \o Repeat("They were tested. ", 6)
Pronouns == "my me we ok. "
IssueTexts ==
    {"Responsible for testing.", "I worked on it and helped with it.",
     "I led my team. We were promoted.", "led led led led",
     Typos \o Passives \o "my me ok. ",
     Typos \o Passives \o Pronouns,
     Typos \o Passives \o Pronouns \o "led led led led",
     "Tasked with it. " \o Typos \o Passives \o Pronouns \o "led led led led",
     "Tasked with it. Worked on it. " \o Typos \o Passives \o Pronouns}

GrammarTexts == ReadabilityTexts \cup DegenerateTexts \cup IssueTexts

InitGrammar ==
    /\ synonyms = Synonyms
    /\ tech_patterns = TechPatterns
    /\ hash_seed = 0
    /\ InitATSChecker
    /\ InitGrammarChecker
    /\ InitOptimizer
    /\ InitServices
    /\ resume_text \in GrammarTexts
    /\ jd_text = ""
    /\ ats_text = ""
    /\ keywords = <<>>
    /\ result = None
    /\ score_args = None
    /\ score_out = None

NextGrammar == Check

SpecGrammar == InitGrammar /\ [][NextGrammar]_vars

(***************************************************************************)
(* Calls of optimize on the issue lists of compliance and style reports    *)
(***************************************************************************)
MaxMissing == 6

\* the issues of the compliance reports of texts on which no, one or two rules
\* of severity high and up to four of severity medium fire
PriorityAtsLists ==
    {check_compatibility(text, "pdf").issues :
        text \in {CleanResume, "", "HOBBIES\n", TableBlock(4), SymbolBlock(11),
                  BoxBlock(6) \o "HOBBIES\n", TableBlock(4) \o BoxBlock(6) \o "HOBBIES\n"}}

\* the issues of the style reports of texts with no, one, two, three and eight
\* typos (severity high), a weak phrase and pronouns (medium), a passive (low)
PriorityGrammarLists ==
    {check(text, [n \in 1..Len(weak_phrases_in(text)) |-> 1]).issues :
        text \in {"", "experiance", "experiance recieve", "experiance recieve occured",
                  Typos, "Responsible for testing.", "I led my team. We were promoted."}}

\* lists of no, five, six and more missing keywords
PriorityMissingLists == {[i \in 1..n |-> Kw(i)] : n \in {0, 5, MaxMissing, 2 * MaxMissing}}

InitPriorities ==
    /\ synonyms = Synonyms
    /\ tech_patterns = TechPatterns
    /\ hash_seed = 0
    /\ InitATSChecker
    /\ InitGrammarChecker
    /\ InitOptimizer
    /\ InitServices
    /\ resume_text = ""
    /\ jd_text = ""
    /\ ats_text = ""
    /\ keywords = <<>>
    /\ result = None
    /\ score_args = None
    /\ score_out = None

\* one call of optimize on a new optimizer; random.choice draws the same
\* template for every impact statement
NextPriorities ==
    /\ optimization = None
    /\ \E missing_keywords \in PriorityMissingLists, ats_issues \in PriorityAtsLists,
          grammar_issues \in PriorityGrammarLists, choice \in RandomIndex(templates) :
          OptimizeWith(missing_keywords, ats_issues, grammar_issues,
                       [k \in 1..Len(Take(missing_keywords, 5)) |-> choice])

SpecPriorities == InitPriorities /\ [][NextPriorities]_vars

(***************************************************************************)
(* Calls of optimize that draw every template                              *)
(***************************************************************************)
\* keywords as match_resume_jd reports them missing
ImpactKeywords ==
    <<"python", "sql", "aws", "node.js", "c++", "machine learning", "kafka", "java">>

\* the first n of them, for every n up to MaxMissing
ImpactMissingLists == {Take(ImpactKeywords, n) : n \in 0..MaxMissing}

\* the draws of random.choice for n statements: every template at every
\* position, the same one or a different one from one statement to the next
ImpactChoices(n) ==
    {[k \in 1..n |-> ((start + k * step) % Len(templates)) + 1] :
        start \in 0..(Len(templates) - 1), step \in 0..(Len(templates) - 1)}

\* one call of optimize on a new optimizer, with no issue of either report
NextImpact ==
    /\ optimization = None
    /\ \E missing_keywords \in ImpactMissingLists :
          \E choices \in ImpactChoices(Len(Take(missing_keywords, 5))) :
             OptimizeWith(missing_keywords, <<>>, <<>>, choices)

SpecImpact == InitPriorities /\ [][NextImpact]_vars

(***************************************************************************)
(* Calls of ResumeParser._identify_sections                                *)
(***************************************************************************)
MaxLines == 4

\* lines of a resume: two headers of the section experience, a header of the
\* section education, a blank line and two lines of content
ParserLines == {"EXPERIENCE", "Work History", "Education", "", "Built APIs", "BSc"}

\* a header of skills between content, and a long line that names a section
ParserScenarios ==
    {"Jane Doe\nSKILLS\nPython, SQL\n\nExperience\nBuilt APIs\nSkills\nKafka",
     "Experience\nMy experience covers ten years of work in banks\nBuilt APIs"}

RECURSIVE LinesUpTo(_)
LinesUpTo(n) ==
    IF n = 0 THEN {<<>>}
    ELSE LinesUpTo(n - 1)
         \cup {Append(q, line) : q \in {p \in LinesUpTo(n - 1) : Len(p) = n - 1},
                                 line \in ParserLines}

ParserTexts == {Join(q, "\n") : q \in LinesUpTo(MaxLines)} \cup ParserScenarios

InitParser ==
    /\ synonyms = Synonyms
    /\ tech_patterns = TechPatterns
    /\ hash_seed = 0
    /\ InitATSChecker
    /\ InitGrammarChecker
    /\ InitOptimizer
    /\ InitRandom
    /\ InitResumeParser
    /\ InitBotAudit
    /\ match_request = None
    /\ tfidf = None
    /\ parsed_text \in ParserTexts
    /\ resume_text = ""
    /\ jd_text = ""
    /\ ats_text = ""
    /\ keywords = <<>>
    /\ result = None
    /\ score_args = None
    /\ score_out = None

\* a call ResumeParser._identify_sections(parsed_text)
IdentifySections ==
    /\ parsed_sections' = ResumeParser_identify_sections(parsed_text)
    /\ UNCHANGED <<matcher, request, keywords, result, score_args, score_out, ats,
                   grammar, optimizer, tfidf, concurrent, section_keywords, parsed_text, bot>>

NextParser == IdentifySections

SpecParser == InitParser /\ [][NextParser]_vars

(***************************************************************************)
(* Two analyses on the shared analyzers                                    *)
(***************************************************************************)
MaxDraws == 4

Analysts == {1, 2}

\* the job text of both analyses
AnalysisJd == ShortJd

\* resumes with one weak phrase and no missing keyword, with two weak phrases
\* and one missing keyword, and with neither
AnalysisTexts ==
    [a \in Analysts |->
        IF a = 1
        THEN {"Responsible for Python and SQL.", "Built Python and SQL tools."}
        ELSE {"Responsible for Python and SQL.", "Worked on Python. Helped with builds."}]

\* the generator of module random as seeded: the indices its next calls of
\* random.choice return, and the number of calls made
RandomStates ==
    {[outputs |-> outputs, position |-> 0] :
        outputs \in [1..MaxDraws -> RandomIndex(ActionVerbs)]}

\* an analysis that has not begun
NewAnalysis(text) ==
    [text |-> text, pc |-> "match_resume_jd", drawn |-> <<>>, match |-> None,
     ats |-> None, grammar |-> None, optimization |-> None]

InitAnalyses ==
    /\ synonyms = Synonyms
    /\ tech_patterns = TechPatterns
    /\ hash_seed = 0
    /\ InitATSChecker
    /\ InitGrammarChecker
    /\ InitOptimizer
    /\ InitResumeParser
    /\ InitBotAudit
    /\ random_state \in RandomStates
    /\ \E first \in AnalysisTexts[1], second \in AnalysisTexts[2] :
          analyses = [a \in Analysts |->
                         NewAnalysis(IF a = 1 THEN first ELSE second)]
    /\ parsed_text = ""
    /\ match_request = None
    /\ tfidf = None
    /\ resume_text = ""
    /\ jd_text = ""
    /\ ats_text = ""
    /\ keywords = <<>>
    /\ result = None
    /\ score_args = None
    /\ score_out = None

\* what an analysis leaves alone: the analyzers and the other requests
AnalyzersUnchanged ==
    UNCHANGED <<matcher, request, keywords, result, score_args, score_out, ats,
                grammar, optimizer, tfidf, parser, bot>>

\* the call match_resume_jd(text, jd) of analysis a, on the shared _matcher
AnalysisMatch(a) ==
    /\ analyses[a].pc = "match_resume_jd"
    /\ analyses' = [analyses EXCEPT
                       ![a].match = match_resume_jd(analyses[a].text, AnalysisJd),
                       ![a].pc = "check_compatibility"]
    /\ UNCHANGED random_state
    /\ AnalyzersUnchanged

\* the call check_compatibility(text) of analysis a
AnalysisCheckCompatibility(a) ==
    /\ analyses[a].pc = "check_compatibility"
    /\ analyses' = [analyses EXCEPT
                       ![a].ats = check_compatibility(analyses[a].text, "pdf"),
                       ![a].pc = "check"]
    /\ UNCHANGED random_state
    /\ AnalyzersUnchanged

\* the number of random.choice calls the step of analysis a makes: one for
\* each weak phrase of the text in check, one for each of the first five
\* missing keywords in optimize
DrawsOf(analysis) ==
    IF analysis.pc = "check" THEN Len(weak_phrases_in(analysis.text))
    ELSE IF analysis.pc = "optimize"
    THEN Len(Take(analysis.match.missing_keywords, 5))
    ELSE 0

\* one random.choice of analysis a, inside check or optimize: it returns the
\* next output of the shared generator and advances it
AnalysisChoice(a) ==
    /\ Len(analyses[a].drawn) < DrawsOf(analyses[a])
    /\ random_state.position < MaxDraws
    /\ analyses' = [analyses EXCEPT
                       ![a].drawn = Append(@, random_state.outputs[random_state.position + 1])]
    /\ random_state' = [random_state EXCEPT !.position = @ + 1]
    /\ AnalyzersUnchanged

\* the return of GrammarChecker.check(text) to analysis a
AnalysisCheck(a) ==
    /\ analyses[a].pc = "check"
    /\ Len(analyses[a].drawn) = DrawsOf(analyses[a])
    /\ analyses' = [analyses EXCEPT
                       ![a].grammar = check(analyses[a].text, analyses[a].drawn),
                       ![a].drawn = <<>>,
                       ![a].pc = "optimize"]
    /\ UNCHANGED random_state
    /\ AnalyzersUnchanged

\* the return of ResumeOptimizer.optimize to analysis a, called on the
\* missing keywords and the issues of its three reports
AnalysisOptimize(a) ==
    /\ analyses[a].pc = "optimize"
    /\ Len(analyses[a].drawn) = DrawsOf(analyses[a])
    /\ analyses' = [analyses EXCEPT
                       ![a].optimization =
                           optimize(analyses[a].text, analyses[a].match.missing_keywords,
                                    analyses[a].ats.issues, analyses[a].grammar.issues,
                                    analyses[a].drawn),
                       ![a].drawn = <<>>,
                       ![a].pc = "done"]
    /\ UNCHANGED random_state
    /\ AnalyzersUnchanged

\* every interleaving of the steps of the two analyses
NextAnalyses ==
    \E a \in Analysts :
        \/ AnalysisMatch(a)
        \/ AnalysisCheckCompatibility(a)
        \/ AnalysisChoice(a)
        \/ AnalysisCheck(a)
        \/ AnalysisOptimize(a)

SpecAnalyses == InitAnalyses /\ [][NextAnalyses]_vars

(***************************************************************************)
(* Calls of _calculate_tfidf on a document and its keywords                *)
(***************************************************************************)
MaxOccurrences == 6
MaxOtherWords == 8

\* documents in which the keyword python occurs 1 to MaxOccurrences times
\* among up to MaxOtherWords other words, and documents with no word, with a
\* keyword inside a longer keyword, and with several keywords
WeightedTexts ==
    {Repeat("Python ", k) \o Repeat("and ", w) :
        k \in 1..MaxOccurrences, w \in 0..MaxOtherWords}
    \cup {"", " \n\t", "JavaScript and Java", "Kafka Kafka AWS", ScenarioA_jd, RepeatedJd}

InitWeights ==
    /\ synonyms = Synonyms
    /\ tech_patterns = TechPatterns
    /\ hash_seed = 0
    /\ InitATSChecker
    /\ InitGrammarChecker
    /\ InitOptimizer
    /\ InitServices
    /\ resume_text = ""
    /\ jd_text \in WeightedTexts
    /\ ats_text = ""
    /\ keywords = <<>>
    /\ result = None
    /\ score_args = None
    /\ score_out = None

\* jd_tfidf = self._calculate_tfidf(jd_text, jd_keywords), the keywords those
\* extracted from jd_text
CalculateTfidf ==
    /\ tfidf' = The({_calculate_tfidf(jd_text, jd_keywords)
                     : jd_keywords \in {_extract_keywords(jd_text)}})
    /\ UNCHANGED <<matcher, request, keywords, result, score_args, score_out, ats,
                   grammar, optimizer, concurrent, parser, bot>>

NextWeights == CalculateTfidf

SpecWeights == InitWeights /\ [][NextWeights]_vars

(***************************************************************************)
(* Requests to the endpoint match_job                                      *)
(***************************************************************************)
\* job descriptions with no keyword, with three keywords, with a keyword
\* named twice, and with seventeen words of which fifteen become keywords
JobDescriptions ==
    {"", "python kafka docker", "Python developer. Python and Kafka, with SQL.",
     "alpha bravo charlie delta echoes foxtrot golf hotel india juliet kilo lima mike november oscar papa quebec",
     "Skills: python, kafka, docker, linux, redis and golang"}

\* resume texts typed into the form
FormResumes ==
    {"", "python", "python kafka", "python kafka\t", "python     kafka",
     "Summary\nExperience\nEducation\nSkills: python, kafka, docker, linux",
     "Experience\nEducation\nSkills: python, kafka\t",
     "CRITICAL_ERROR_IMAGE_ONLY", "PDF_PROCESSING_FAILED"}

\* the file uploaded with the form: none, or what parse_and_audit_structure
\* returns for it (a document with a table, one with a table and the contact
\* data in the page header, and a scanned PDF)
UploadedFiles ==
    {None,
     [parsing_safe |-> TRUE, table_detected |-> TRUE, contact_in_header |-> FALSE,
      text |-> "Experience\nEducation\nSkills\npython kafka docker\n"],
     [parsing_safe |-> TRUE, table_detected |-> TRUE, contact_in_header |-> TRUE,
      text |-> "python and kafka\t\n"],
     [parsing_safe |-> FALSE, table_detected |-> FALSE, contact_in_header |-> FALSE,
      text |-> "CRITICAL_ERROR_IMAGE_ONLY"]}

InitMatchJob ==
    /\ synonyms = Synonyms
    /\ tech_patterns = TechPatterns
    /\ hash_seed = 0
    /\ InitATSChecker
    /\ InitGrammarChecker
    /\ InitOptimizer
    /\ InitRandom
    /\ InitResumeParser
    /\ InitBotAudit
    /\ match_request \in [resume_text : FormResumes, job_description : JobDescriptions,
                          resume_file : UploadedFiles]
    /\ parsed_text = ""
    /\ tfidf = None
    /\ resume_text = ""
    /\ jd_text = ""
    /\ ats_text = ""
    /\ keywords = <<>>
    /\ result = None
    /\ score_args = None
    /\ score_out = None

\* a request POST /api/match-job served by the shared bot_audit
MatchJob ==
    /\ match_response' = match_job(match_request.resume_text,
                                   match_request.job_description,
                                   match_request.resume_file)
    /\ UNCHANGED <<matcher, request, keywords, result, score_args, score_out, ats,
                   grammar, optimizer, tfidf, concurrent, parser, nlp, match_request>>

NextMatchJob == MatchJob

SpecMatchJob == InitMatchJob /\ [][NextMatchJob]_vars

(***************************************************************************)
(* Properties of match_resume_jd                                           *)
(***************************************************************************)
Returned == result # None /\ result # ZeroDivisionError

JdKeywords == _extract_keywords(jd_text)
ResumeKeywords == _extract_keywords(resume_text)
Reported(list) == Range(list)

\* C1: for every pair of texts, empty ones included, the score returned by
\* match_resume_jd lies in the closed interval [0,100].
C1_ScoreInRange ==
    result # None =>
        /\ result # ZeroDivisionError
        /\ RLeq(R(0), result.score)
        /\ RLeq(result.score, R(100))

\* a call returned a score strictly inside the interval, and one returned 100
C1_Witness ==
    /\ Returned
    /\ jd_text = "Python" /\ resume_text = "python"
    /\ result.score = R(100)

\* C2: the matched list and the missing list returned by match_resume_jd are
\* disjoint, every matched term is a keyword extracted from the job text, and
\* every missing term is a job keyword that is not matched.
C2_MatchedMissingDisjoint ==
    Returned =>
        /\ Reported(result.found_keywords) \cap Reported(result.missing_keywords) = {}
        /\ Reported(result.found_keywords) \subseteq JdKeywords
        /\ Reported(result.missing_keywords)
             \subseteq JdKeywords \ Reported(result.found_keywords)

\* a call returned both a matched and a missing keyword, the matched one found
\* only through a synonym
C2_Witness ==
    /\ Returned
    /\ resume_text = "db" /\ jd_text = "SQL AWS"
    /\ result.found_keywords = <<"sql">>
    /\ result.missing_keywords = <<"aws">>

\* C3: if the job text yields no keyword, match_resume_jd returns score 0 with
\* an empty matched list and an empty missing list, whatever the resume holds.
C3_NoJobKeywords ==
    (result # None /\ JdKeywords = {}) =>
        /\ result # ZeroDivisionError
        /\ result.score = R(0)
        /\ result.found_keywords = <<>>
        /\ result.missing_keywords = <<>>

\* the job text has no keyword while the resume has some
C3_Witness ==
    /\ Returned
    /\ JdKeywords = {}
    /\ ResumeKeywords # {}
    /\ jd_text # ""

\* C4: a job keyword is matched if and only if it is a resume keyword, or it
\* occurs in the resume text ignoring case, or it is a variant of a synonym
\* class of which some variant occurs in the resume text ignoring case.
IsResumeKeyword(kw) == kw \in ResumeKeywords
OccursInResume(kw) == Contains(kw, Lower(resume_text))
SynonymOccursInResume(kw) ==
    \E c \in DOMAIN Synonyms :
        /\ kw \in Range(Synonyms[c].variants)
        /\ \E v \in Range(Synonyms[c].variants) : Contains(v, Lower(resume_text))

ShouldMatch == {kw \in JdKeywords :
                   IsResumeKeyword(kw) \/ OccursInResume(kw) \/ SynonymOccursInResume(kw)}

C4_MatchedIff ==
    Returned =>
        /\ result.matched_keywords = Cardinality(ShouldMatch)
        /\ result.found_keywords = Take(Sorted(ShouldMatch), 20)

\* a keyword matched through a synonym only, one matched as a substring of the
\* resume text only, and a job keyword that is not matched
C4_Witness ==
    /\ Returned
    /\ \E kw \in Reported(result.found_keywords) :
           ~OccursInResume(kw) /\ SynonymOccursInResume(kw)
    /\ \E kw \in Reported(result.found_keywords) :
           OccursInResume(kw) /\ ~IsResumeKeyword(kw) /\ ~SynonymOccursInResume(kw)
    /\ \E kw \in JdKeywords : kw \notin Reported(result.found_keywords)

\* C5: when more than 15 job keywords are missing, the missing list consists of
\* the 15 missing keywords with the highest term weight in the job text (no
\* omitted missing keyword weighs strictly more than a reported one); when at
\* most 15 are missing, all of them are reported.
C5_MissingTopByWeight ==
    Returned =>
        LET jd_tfidf   == _calculate_tfidf(jd_text, JdKeywords)
            matched    == _find_matches(ResumeKeywords, JdKeywords,
                                        Lower(resume_text), Lower(jd_text))
            allMissing == JdKeywords \ matched
            reported   == Reported(result.missing_keywords)
        IN  IF Cardinality(allMissing) > 15
            THEN /\ Len(result.missing_keywords) = 15
                 /\ reported \subseteq allMissing
                 /\ \A o \in allMissing \ reported : \A r \in reported :
                        ~RLess(jd_tfidf[r], jd_tfidf[o])
            ELSE reported = allMissing

\* C6: whenever at least one job keyword is matched and at least one is
\* missing, the score in the result is strictly greater than 0 and strictly
\* less than 100; for the resume and job of Scenario A, python and sql are
\* matched and aws is missing.
C6_ScoreStrictlyInside ==
    score_out # None =>
        /\ (score_args.matches # {} /\ score_args.jd_keywords \ score_args.matches # {})
              => RLess(R(0), score_out.rounded) /\ RLess(score_out.rounded, R(100))
        /\ score_args = ArgsOf(ScenarioA_resume, ScenarioA_jd)
              => /\ {"python", "sql"} \subseteq score_args.matches
                 /\ "aws" \in score_args.jd_keywords \ score_args.matches

\* C7: two calls of _extract_keywords on the same text return the same set,
\* whatever calls were made on the instance in between: the value returned by
\* the last call on a text is the value returned by the first.
C7_ExtractDeterministic ==
    \A text \in DOMAIN keywords : keywords[text].last = keywords[text].first

\* the job text of Scenario A was extracted twice, another text was extracted
\* and a match was computed
C7_Witness ==
    /\ ScenarioA_jd \in DOMAIN keywords
    /\ keywords[ScenarioA_jd].calls = 2
    /\ keywords[ScenarioA_jd].last = {"python", "sql", "aws"}
    /\ "Kafka Kafka AWS" \in DOMAIN keywords
    /\ result # None

(***************************************************************************)
(* Properties of check_compatibility                                       *)
(***************************************************************************)
\* the fixed penalty of a listed issue
PenaltyOf(issue) ==
    CASE issue.type = "tables" -> 15
      [] issue.type = "formatting" -> 10
      [] issue.type = "headers" -> 10
      [] issue.type = "special_chars" -> 5
      [] issue.type = "contact" -> 15
      [] issue.type = "length" ->
           IF issue.message = "Resume appears too short" THEN 10 ELSE 5
      [] issue.type = "metrics" -> 10

RECURSIVE PenaltySum(_)
PenaltySum(issues) ==
    IF issues = <<>> THEN 0 ELSE PenaltyOf(Head(issues)) + PenaltySum(Tail(issues))

Clamped(n) == IF n < 0 THEN 0 ELSE IF n > 100 THEN 100 ELSE n

\* C9: the score of every compliance report lies in [0,100] and equals 100
\* minus the sum of the fixed penalties of exactly the issues listed in the
\* report, clamped to [0,100].
C9_ScoreIsHundredLessPenalties ==
    ats_report # None =>
        /\ RLeq(R(0), ats_report.score) /\ RLeq(ats_report.score, R(100))
        /\ ats_report.score = R(Clamped(100 - PenaltySum(ats_report.issues)))

\* a report that lists an issue of every rule: 75 points are taken off
C9_Witness ==
    /\ ats_report # None
    /\ ats_report.total_issues = 7
    /\ ats_report.score = R(25)

\* the rules whose detector fires on the text of the call, each detector
\* applied on its own
FiredRules ==
    {type \in {"tables", "formatting", "headers", "special_chars", "contact",
               "length", "metrics"} :
        CASE type = "tables" -> _has_table_markers(ats_text)
          [] type = "formatting" -> _has_complex_formatting(ats_text)
          [] type = "headers" -> _check_section_headers(ats_text) # <<>>
          [] type = "special_chars" -> _has_special_chars(ats_text)
          [] type = "contact" -> ~_has_contact_info(ats_text)
          [] type = "length" -> WordCount(ats_text) < 200 \/ WordCount(ats_text) > 1500
          [] type = "metrics" -> ~_has_metrics(ats_text)}

IssuesOfType(type) ==
    {i \in DOMAIN ats_report.issues : ats_report.issues[i].type = type}

\* C10: the report lists exactly one issue for each rule whose detector fires
\* on the text and none for a rule that does not fire, whatever the other
\* rules do, and total_issues is the number of fired rules.
C10_OneIssuePerFiredRule ==
    ats_report # None =>
        /\ \A type \in FiredRules : Cardinality(IssuesOfType(type)) = 1
        /\ \A i \in DOMAIN ats_report.issues : ats_report.issues[i].type \in FiredRules
        /\ ats_report.total_issues = Cardinality(FiredRules)
        /\ Len(ats_report.issues) = ats_report.total_issues

\* a report in which the first rule fired and two later ones are listed too,
\* while the rules between them did not fire
C10_Witness ==
    /\ ats_report # None
    /\ [i \in DOMAIN ats_report.issues |-> ats_report.issues[i].type]
          = <<"tables", "headers", "metrics">>

\* C11: the compatibility rating of a report is a step function of the
\* report's score: Excellent from 80 up, Good from 60 up to 80, Fair from 40
\* up to 60, Poor below 40.
C11_RatingIsStepOfScore ==
    ats_report # None =>
        /\ ats_report.compatibility \in {"Excellent", "Good", "Fair", "Poor"}
        /\ ats_report.compatibility = "Excellent" <=> RLeq(R(80), ats_report.score)
        /\ ats_report.compatibility = "Good" <=>
              RLeq(R(60), ats_report.score) /\ RLess(ats_report.score, R(80))
        /\ ats_report.compatibility = "Fair" <=>
              RLeq(R(40), ats_report.score) /\ RLess(ats_report.score, R(60))
        /\ ats_report.compatibility = "Poor" <=> RLess(ats_report.score, R(40))

\* a report whose score is exactly 40, the lowest score rated Fair
C11_Witness ==
    /\ ats_report # None
    /\ ats_report.score = R(40)
    /\ ats_report.compatibility = "Fair"

\* the rows of the penalty table that apply to a text, each detector applied
\* on its own (too short and too long are two rows)
PenaltyRules == {"tables", "formatting", "headers", "special_chars", "contact",
                 "too_short", "too_long", "metrics"}
RulesFiredOn(text) ==
    The({{rule \in PenaltyRules :
            CASE rule = "tables" -> tables
              [] rule = "formatting" -> formatting
              [] rule = "headers" -> headers
              [] rule = "special_chars" -> special_chars
              [] rule = "contact" -> ~contact
              [] rule = "too_short" -> word_count < 200
              [] rule = "too_long" -> word_count > 1500
              [] rule = "metrics" -> ~metrics}
         : tables \in {_has_table_markers(text)},
           formatting \in {_has_complex_formatting(text)},
           headers \in {_check_section_headers(text) # <<>>},
           special_chars \in {_has_special_chars(text)},
           contact \in {_has_contact_info(text)},
           word_count \in {WordCount(text)},
           metrics \in {_has_metrics(text)}})
\* the texts checked so far, each with the rules that fire on it and the
\* score of the first report made for it
FiredAndScore ==
    {[text |-> text, fired |-> RulesFiredOn(text), score |-> ats_calls[text].first.score]
        : text \in DOMAIN ats_calls}

\* C12: the compliance score does not increase with the set of fired penalty
\* rules (the rows of the penalty table): for any two texts checked, if every
\* rule that fires on the first also fires on the second, the score of the
\* second is at most the score of the first; so the score of a resume on which
\* no rule fires does not go up when a table block is put before it.
C12_ScoreMonotoneInFiredRules ==
    \A checked \in {FiredAndScore} :
        \A T1 \in checked, T2 \in checked :
            T1.fired \subseteq T2.fired => RLeq(T2.score, T1.score)

\* the clean resume and the clean resume with a table block have both been
\* checked: no rule fires on the first, the table rule alone on the second
C12_Witness ==
    /\ DOMAIN ats_calls = CallTexts
    /\ \A checked \in {FiredAndScore} :
          /\ [text |-> CleanResume, fired |-> {}, score |-> R(100)] \in checked
          /\ [text |-> TableResume, fired |-> {"tables"}, score |-> R(85)] \in checked
          /\ [text |-> "(555) 123-4567\n", fired |-> {"too_short", "metrics"},
              score |-> R(80)] \in checked
          /\ [text |-> "HOBBIES\n",
              fired |-> {"headers", "contact", "too_short", "metrics"},
              score |-> R(55)] \in checked

\* C13: a check_compatibility call on a text returns the same report (score,
\* issues, total_issues, compatibility) as the first call on that text,
\* whatever calls on whatever texts were made in between.
C13_CheckCompatibilityIdempotent ==
    (ats_report # None /\ ats_text \in DOMAIN ats_calls) =>
        /\ ats_report = ats_calls[ats_text].first
        /\ DOMAIN ats_report = {"score", "issues", "total_issues", "compatibility"}

\* a text with a standard header was checked, then other texts, then the
\* first text again
C13_Witness ==
    /\ ats_text = "EDUCATION\n"
    /\ "EDUCATION\n" \in DOMAIN ats_calls
    /\ ats_calls["EDUCATION\n"].again
    /\ {TableResume, "HOBBIES\n"} \subseteq DOMAIN ats_calls
    /\ [i \in DOMAIN ats_report.issues |-> ats_report.issues[i].type]
          = <<"contact", "length", "metrics">>

\* a table block is detected in the text, the text holds a phone number, and
\* every line that holds one is a line of the table block
HasPhone(s) ==
    \E i \in 1..Len(s) : Ch(s, i) \in DigitSet \cup {"("} /\ PhoneAt(s, i)
IsTableLine(line) == Contains("\t\t", line) \/ Contains("          ", line)
PhoneOnlyInTableBlock(text) ==
    /\ _has_table_markers(text)
    /\ \A lines \in {SplitOn(text, {"\n"})} :
          /\ \E i \in DOMAIN lines : HasPhone(lines[i])
          /\ \A i \in DOMAIN lines : HasPhone(lines[i]) => IsTableLine(lines[i])

\* C14: for a text in which a table block is detected and whose phone number
\* appears only in a line of that table block, the report lists a tables issue
\* of severity high and the score is at most 100 - 15 - 15 = 70.
C14_TablePhoneScoreAtMost70 ==
    (ats_report # None /\ PhoneOnlyInTableBlock(ats_text)) =>
        /\ \E i \in DOMAIN ats_report.issues :
              /\ ats_report.issues[i].type = "tables"
              /\ ats_report.issues[i].severity = "high"
        /\ RLeq(ats_report.score, R(70))

(***************************************************************************)
(* Properties of GrammarChecker.check                                      *)
(***************************************************************************)
\* the positions at which a sentence of the text begins: the first character
\* that is not white space after the start of the text or after one of . ! ?
SentenceStarts(text) ==
    {i \in 1..Len(text) :
        /\ Ch(text, i) \notin SpaceSet \cup {".", "!", "?"}
        /\ \A before \in {i - 1 - RunLenBack(text, i, SpaceSet)} :
              before = 0 \/ Ch(text, before) \in {".", "!", "?"}}

\* C16: the readability score is a step function of the average number of
\* words in a sentence (the words separated by white space, over the
\* sentences between . ! ? that are not blank): 100 for an average in
\* [15,20], 90 in [10,15), 85 in (20,25], 70 in (25,30], 60 otherwise, and 50
\* for a text without sentence; so an average of 17 gives 100.
C16_ReadabilityIsStepOfAverage ==
    (grammar_report # None /\ grammar_report # ZeroDivisionError) =>
        \A W \in {WordCount(resume_text)}, S \in {Cardinality(SentenceStarts(resume_text))} :
            /\ grammar_report.readability_score =
                  R(IF S = 0 THEN 50
                    ELSE IF 15 * S <= W /\ W <= 20 * S THEN 100
                    ELSE IF 10 * S <= W /\ W < 15 * S THEN 90
                    ELSE IF 20 * S < W /\ W <= 25 * S THEN 85
                    ELSE IF 25 * S < W /\ W <= 30 * S THEN 70
                    ELSE 60)
            /\ (S > 0 /\ W = 17 * S) => grammar_report.readability_score = R(100)

\* the report of a text of two sentences and 34 words: 17 words a sentence
C16_Witness ==
    /\ grammar_report # None
    /\ resume_text = Sentences(34, 2)
    /\ WordCount(resume_text) = 34
    /\ Cardinality(SentenceStarts(resume_text)) = 2
    /\ grammar_report.readability_score = R(100)

\* the place of a category in the order of the report
Rank(type) ==
    CASE type = "weak_language" -> 1
      [] type = "spelling" -> 2
      [] type = "passive_voice" -> 3
      [] type = "first_person" -> 4
      [] type = "repetition" -> 5

\* a list of issues without the suggestion texts
Unsuggested(issues) == [k \in DOMAIN issues |-> [issues[k] EXCEPT !.suggestion = ""]]

\* every issue detected in the text, category by category
Detected(text) ==
    _check_weak_language(text, [n \in 1..Len(weak_phrases_in(text)) |-> 1])
    \o _check_spelling(text) \o _check_passive_voice(text)
    \o _check_first_person(text) \o _check_repetition(text)

\* C17: the issues list of the style report has at most 20 entries and is the
\* first 20 of all weak-language, spelling, passive-voice, first-person and
\* repetition issues, in this order of the categories and each category in its
\* detection order; an issue is left out only if every issue of a later
\* category is left out too.
C17_IssuesAreFirstTwenty ==
    (grammar_report # None /\ grammar_report # ZeroDivisionError) =>
        \A detected \in {Unsuggested(Detected(resume_text))},
           issues \in {Unsuggested(grammar_report.issues)} :
            /\ Len(issues) <= 20
            /\ issues = Take(detected, 20)
            /\ grammar_report.total_issues = Len(detected)
            /\ \A k \in DOMAIN issues, l \in DOMAIN issues :
                  k < l => Rank(issues[k].type) <= Rank(issues[l].type)
            /\ \A d \in DOMAIN detected :
                  (\A k \in DOMAIN issues : issues[k] # detected[d]) =>
                      \A k \in DOMAIN issues :
                          Rank(issues[k].type) <= Rank(detected[d].type)

\* a text with 23 issues: the report keeps the weak phrase, the eight typos,
\* the ten passive forms and one pronoun, and leaves out two pronouns and the
\* repeated verb
C17_Witness ==
    /\ grammar_report # None
    /\ grammar_report.total_issues = 23
    /\ Len(grammar_report.issues) = 20
    /\ grammar_report.issues[1].type = "weak_language"
    /\ grammar_report.issues[9].type = "spelling"
    /\ grammar_report.issues[19].type = "passive_voice"
    /\ grammar_report.issues[20].type = "first_person"
    /\ grammar_report.issues[20].pronoun = "my"

\* C18: two calls of GrammarChecker.check on the same text return identical
\* reports, the message and the suggestion of every issue included (the text
\* of the request does not change between the calls).
C18_CheckIsPure ==
    [][(grammar_report # None /\ resume_text' = resume_text)
           => grammar_report' = grammar_report]_vars

(***************************************************************************)
(* Properties of the operations on a resume without words                  *)
(***************************************************************************)
\* the call of optimize was made on the issues of both reports and no missing
\* keyword
OptimizedFromReports ==
    /\ optimization # None /\ ats_report # None /\ grammar_report # None
    /\ ats_text = resume_text
    /\ optimize_args = [missing_keywords |-> <<>>,
                        ats_issues |-> ats_report.issues,
                        grammar_issues |-> grammar_report.issues]

\* C15: for a resume text of 0 words, check_compatibility reports the length
\* issue "too short", GrammarChecker.check returns readability 50 and no
\* issue, and the priority list optimize builds from the issues of these two
\* reports and no missing keyword is non-empty, every entry of it made from
\* a compliance issue.
C15_ZeroWordResume ==
    WordCount(resume_text) = 0 =>
        /\ (ats_report # None /\ ats_text = resume_text) =>
              \E i \in DOMAIN ats_report.issues :
                  /\ ats_report.issues[i].type = "length"
                  /\ ats_report.issues[i].message = "Resume appears too short"
        /\ grammar_report # None =>
              /\ grammar_report # ZeroDivisionError
              /\ grammar_report.readability_score = R(50)
              /\ grammar_report.issues = <<>>
              /\ grammar_report.total_issues = 0
        /\ OptimizedFromReports =>
              /\ optimization.priority_fixes # <<>>
              /\ \A k \in DOMAIN optimization.priority_fixes :
                    /\ optimization.priority_fixes[k].category = "ATS Compatibility"
                    /\ \E i \in DOMAIN ats_report.issues :
                          /\ optimization.priority_fixes[k].issue
                                = ats_report.issues[i].message
                          /\ optimization.priority_fixes[k].fix
                                = ats_report.issues[i].fix

\* the three operations have been applied to a resume of white space only:
\* the priority list names the missing contact information, the length and
\* the missing metrics
C15_Witness ==
    /\ resume_text = "\n\t "
    /\ OptimizedFromReports
    /\ [k \in DOMAIN optimization.priority_fixes |->
           optimization.priority_fixes[k].issue]
          = <<"Contact information not clearly visible", "Resume appears too short",
              "Few or no quantifiable achievements found">>

(***************************************************************************)
(* Properties of the priority list                                         *)
(***************************************************************************)
\* the suggestions the policy asks for, from the arguments of the call: one
\* for each issue of the given list and severity ...
PolicyEntries(issues, severity, priority, category, fix_key) ==
    {[priority |-> priority, category |-> category,
      issue |-> issues[k].message, fix |-> issues[k][fix_key]]
        : k \in {k \in DOMAIN issues : issues[k].severity = severity}}
\* ... and one for a list of more than 5 missing keywords
PolicyKeywordEntries(missing_keywords) ==
    IF Len(missing_keywords) > 5
    THEN {[priority |-> 1, category |-> "Keywords",
           issue |-> ToString(Len(missing_keywords)) \o " important keywords missing",
           fix |-> "Add key terms: " \o Join(Take(missing_keywords, 5), ", ")]}
    ELSE {}
Policy ==
    PolicyEntries(optimize_args.ats_issues, "high", 1, "ATS Compatibility", "fix")
    \cup PolicyKeywordEntries(optimize_args.missing_keywords)
    \cup PolicyEntries(optimize_args.grammar_issues, "high", 2, "Grammar & Style",
                       "suggestion")
    \cup PolicyEntries(optimize_args.ats_issues, "medium", 2, "ATS Compatibility", "fix")

\* C19: the priority list holds a priority-1 suggestion for every compliance
\* issue of severity high, one priority-1 keyword suggestion if and only if
\* more than 5 keywords are missing, a priority-2 suggestion for every style
\* issue of severity high and for every compliance issue of severity medium,
\* and nothing else; suggestions are left out only where the list is cut to
\* 10 entries.
C19_PrioritiesFollowPolicy ==
    optimization # None =>
        \A policy \in {Policy}, fixes \in {Range(optimization.priority_fixes)} :
            /\ fixes \subseteq policy
            /\ Cardinality(policy) <= 10 => policy \subseteq fixes
            /\ Cardinality(policy) > 10 => Len(optimization.priority_fixes) = 10

\* the place of an entry in the order of the list
GroupRank(entry) ==
    CASE entry.priority = 1 /\ entry.category = "ATS Compatibility" -> 1
      [] entry.priority = 1 /\ entry.category = "Keywords" -> 2
      [] entry.priority = 2 /\ entry.category = "Grammar & Style" -> 3
      [] entry.priority = 2 /\ entry.category = "ATS Compatibility" -> 4
      [] OTHER -> 0

\* C20: the priority list made from the issues of a compliance report and a
\* style report has at most 10 entries, in order of non-decreasing priority
\* number and, within a priority, in the order compliance of severity high,
\* missing keywords, style of severity high, compliance of severity medium;
\* no suggestion of the policy that is left out has a priority number lower
\* than that of an entry of the list.
C20_PriorityListOrdered ==
    optimization # None =>
        \A policy \in {Policy}, fixes \in {optimization.priority_fixes} :
            /\ Len(fixes) <= 10
            /\ \A k \in DOMAIN fixes : GroupRank(fixes[k]) \in 1..4
            /\ \A k \in DOMAIN fixes, l \in DOMAIN fixes :
                  k < l => /\ fixes[k].priority <= fixes[l].priority
                           /\ GroupRank(fixes[k]) <= GroupRank(fixes[l])
            /\ \A left_out \in policy \ Range(fixes) :
                  \A k \in DOMAIN fixes : left_out.priority >= fixes[k].priority

\* a list with entries of the four groups, made from two compliance issues of
\* severity high and four of severity medium, three typos and six missing
\* keywords: a typo and two compliance issues are left out
C20_Witness ==
    /\ optimization # None
    /\ [k \in DOMAIN optimization.priority_fixes |->
           GroupRank(optimization.priority_fixes[k])] = <<1, 1, 2, 3, 3, 4, 4>>
    /\ Cardinality(Policy \ Range(optimization.priority_fixes)) = 3

(***************************************************************************)
(* Properties of the impact statements                                     *)
(***************************************************************************)
\* the five templates with every slot filled, for a keyword
FilledTemplates(keyword) ==
    {"Developed " \o keyword \o "-based solutions that improved performance by 30%",
     "Implemented " \o keyword \o " to optimize workflow, resulting in faster deployment cycles",
     "Led team using " \o keyword \o " to deliver production release ahead of schedule",
     "Architected scalable " \o keyword \o " system supporting 10,000+ users",
     "Utilized " \o keyword \o " to reduce performance by 30%"}

\* C21: there is one impact statement for each of the first min(5, n) of the n
\* missing keywords, in input order; its example is one of the five templates
\* with the keyword substituted and every slot filled with its stand-in value,
\* no brace remains in it, and its tip labels it as an example to customize.
C21_ImpactStatements ==
    optimization # None =>
        \A missing \in {optimize_args.missing_keywords},
           statements \in {optimization.impact_statements} :
            /\ Len(statements) = MinOf({5, Len(missing)})
            /\ \A k \in DOMAIN statements :
                  /\ statements[k].keyword = missing[k]
                  /\ statements[k].example \in FilledTemplates(missing[k])
                  /\ ~Contains("{", statements[k].example)
                  /\ ~Contains("}", statements[k].example)
                  /\ statements[k].tip =
                        "Customize this example with your actual achievements"

\* six keywords are missing, five statements are made, and the five templates
\* are all drawn
C21_Witness ==
    /\ optimization # None
    /\ Len(optimize_args.missing_keywords) > 5
    /\ Len(optimization.impact_statements) = 5
    /\ \A k \in 1..5 :
          optimization.impact_statements[k].example =
              fill_template(templates[k], optimize_args.missing_keywords[k])

(***************************************************************************)
(* Properties of ResumeParser._identify_sections                           *)
(***************************************************************************)
\* the lines of content that follow the headers of a section: the lines that
\* are no header and whose most recent header is one of that section
LinesOfSection(lines, section) ==
    SelectSeq([k \in DOMAIN lines |->
                  [line |-> lines[k],
                   kept |-> /\ matched_section_of(lines[k]) = ""
                            /\ \E h \in 1..(k - 1) :
                                  /\ matched_section_of(lines[h]) = section
                                  /\ \A j \in (h + 1)..(k - 1) :
                                        matched_section_of(lines[j]) = ""]],
              LAMBDA entry : entry.kept)

\* C29: every line that is no header and follows a header belongs to the
\* content of the section of the most recent header, none is lost, also when a
\* section header occurs more than once; header lines and lines before the
\* first header belong to no content.
C29_NoContentLineLost ==
    parsed_sections # None =>
        \A lines \in {SplitOn(parsed_text, {"\n"})} :
        \A n \in DOMAIN section_keywords :
        \A content \in {LinesOfSection(lines, section_keywords[n].name)} :
            IF content = <<>>
            THEN section_keywords[n].name \notin DOMAIN parsed_sections
            ELSE /\ section_keywords[n].name \in DOMAIN parsed_sections
                 /\ parsed_sections[section_keywords[n].name]
                        = Join([k \in DOMAIN content |-> content[k].line], "\n")

(***************************************************************************)
(* Properties of concurrent analyses                                       *)
(***************************************************************************)
\* the reports of the analysis of a text run alone from a state of the
\* generator: check takes its first outputs, optimize the next ones
RunAlone(text, outputs) ==
    LET match   == match_resume_jd(text, AnalysisJd)
        ats_    == check_compatibility(text, "pdf")
        first   == Len(weak_phrases_in(text))
        second  == Len(Take(match.missing_keywords, 5))
        grammar_ == check(text, SubSeq(outputs, 1, first))
    IN  [match |-> match, ats |-> ats_, grammar |-> grammar_,
         optimization |-> optimize(text, match.missing_keywords, ats_.issues,
                                   grammar_.issues,
                                   SubSeq(outputs, first + 1, first + second))]

\* C22: under every interleaving of the steps of two analyses on the shared
\* analyzers, each analysis returns exactly the reports it returns when it
\* runs alone from the same state, and the static tables are never modified.
C22_AnalysesDoNotInterfere ==
    /\ synonyms = Synonyms /\ tech_patterns = TechPatterns
    /\ standard_sections = StandardSections /\ weak_phrases = WeakPhrases
    /\ \A a \in DOMAIN analyses :
          analyses[a].pc = "done" =>
              \A done \in {analyses[a]},
                 alone \in {RunAlone(analyses[a].text, random_state.outputs)} :
                  /\ done.match = alone.match
                  /\ done.ats = alone.ats
                  /\ done.grammar = alone.grammar
                  /\ done.optimization = alone.optimization

(***************************************************************************)
(* Properties of the unrounded match score                                 *)
(***************************************************************************)
\* 100 * part / whole, 0 when whole is 0
Percent(part, whole) ==
    IF whole = R(0) THEN R(0) ELSE RMul(R(100), Div(part, whole))

\* C23: when the job text has a keyword, the unrounded score is
\* min(100, 0.7 * baseScore + 0.3 * weightedScore), baseScore the percentage of
\* job keywords matched and weightedScore the percentage of the job-text weight
\* that the matched keywords carry (0 when the job-text weights sum to 0);
\* every matched keyword has a job-text weight, so no default weight is used.
C23_UnroundedScoreFormula ==
    (score_out # None /\ score_args.jd_keywords # {}) =>
        \A args \in {score_args} :
            /\ args.matches \subseteq DOMAIN args.jd_tfidf
            /\ DOMAIN args.jd_tfidf = args.jd_keywords
            /\ \A baseScore \in {Percent(R(Cardinality(args.matches)),
                                         R(Cardinality(args.jd_keywords)))},
                  weightedScore \in {Percent(SumOver(args.matches, args.jd_tfidf),
                                             SumOver(args.jd_keywords, args.jd_tfidf))} :
                  score_out.score =
                      RMin(R(100), RAdd(RMul(Rat(7, 10), baseScore),
                                        RMul(Rat(3, 10), weightedScore)))

\* a job text of three keywords, one of them matched through a synonym and
\* one missing, the weights unequal: the score lies between the base score and
\* the weighted score
C23_Witness ==
    /\ score_out # None
    /\ score_args = ArgsOf("db JavaScript", "SQL, Java and AWS AWS")
    /\ Cardinality(score_args.jd_keywords) = 3
    /\ Cardinality(score_args.matches) = 2
    /\ \E kw \in score_args.matches, other \in score_args.jd_keywords :
          score_args.jd_tfidf[kw] # score_args.jd_tfidf[other]
    /\ RLess(R(0), score_out.score) /\ RLess(score_out.score, R(100))

(***************************************************************************)
(* Properties of the term weights                                          *)
(***************************************************************************)
\* the places of the lowercased text at which the term begins
OccurrencesOf(term, text) ==
    Cardinality({i \in 1..Len(text) : StartsAt(Lower(term), Lower(text), i)})

\* the words of the text: its pieces between whitespace that are not empty
WordsOf(text) == SelectSeq(SplitOn(text, SpaceSet), LAMBDA piece : piece # "")

\* C24: the weight of every keyword of a document is not negative and is
\* occurrences / words times 2.0 for 2 to 5 occurrences, 1.5 for exactly one
\* and 1.0 otherwise, which for a keyword of the document means 6 or more;
\* it is 0 when the document has no word.
C24_TermWeight ==
    (tfidf # None) =>
        /\ tfidf # ZeroDivisionError
        /\ \A weights \in {tfidf}, words \in {Len(WordsOf(jd_text))} :
              /\ DOMAIN weights = _extract_keywords(jd_text)
              /\ \A kw \in DOMAIN weights :
                    \A n \in {OccurrencesOf(kw, jd_text)} :
                       /\ weights[kw].num >= 0 /\ weights[kw].den > 0
                       /\ n >= 1
                       /\ words = 0 => weights[kw] = R(0)
                       /\ (words > 0 /\ n >= 2 /\ n <= 5) =>
                              weights[kw] = Rat(2 * n, words)
                       /\ (words > 0 /\ n = 1) => weights[kw] = Rat(3 * n, 2 * words)
                       /\ (words > 0 /\ n >= 6) => weights[kw] = Rat(n, words)

\* the same keyword weighed with each multiplier: 5 occurrences among 8 words
\* weigh twice 5/8, 6 occurrences among 8 words weigh 6/8
C24_Witness ==
    /\ tfidf # None
    /\ "python" \in DOMAIN tfidf
    /\ \/ jd_text = Repeat("Python ", 5) \o Repeat("and ", 3) /\ tfidf["python"] = Rat(5, 4)
       \/ jd_text = Repeat("Python ", 6) \o Repeat("and ", 2) /\ tfidf["python"] = Rat(3, 4)

(***************************************************************************)
(* Properties of the first-person check                                    *)
(***************************************************************************)
LetterSet == UpperSet \cup LowerSet

\* the number of times a pronoun is used in the text: the words of the text
\* (runs of letters) that spell it in any letter case
UsesOf(pronoun, text) ==
    Cardinality({i \in 1..Len(text) :
                    /\ StartsAt(pronoun, Lower(text), i)
                    /\ (i = 1 \/ Ch(text, i - 1) \notin LetterSet)
                    /\ (i + Len(pronoun) > Len(text)
                        \/ Ch(text, i + Len(pronoun)) \notin LetterSet)})

\* C25: for each of the pronouns I, my, me, mine, we, our, us used in the text
\* in any letter case the report holds one first_person issue whose count is
\* the number of its uses, and it holds none for a pronoun that is not used
\* (reports whose issue list was not cut to 20).
C25_FirstPersonCounted ==
    (grammar_report \notin {None, ZeroDivisionError}) =>
        (grammar_report.total_issues <= 20 =>
            \A pronoun \in {"i", "my", "me", "mine", "we", "our", "us"} :
            \A uses \in {UsesOf(pronoun, resume_text)},
               reported \in {SelectSeq(grammar_report.issues,
                                       LAMBDA issue :
                                           /\ GetIs(issue, "type", "first_person")
                                           /\ Lower(Get(issue, "pronoun", "")) = pronoun)} :
                IF uses = 0 THEN reported = <<>>
                ELSE Len(reported) = 1 /\ reported[1].count = uses)

(***************************************************************************)
(* Properties of the matched and the missing job keywords                  *)
(***************************************************************************)
\* the sets match_resume_jd holds before it cuts them for the result
UntruncatedMatches ==
    _find_matches(ResumeKeywords, JdKeywords, Lower(resume_text), Lower(jd_text))
UntruncatedMissing ==
    Range(_find_missing_keywords(JdKeywords, ResumeKeywords, Lower(resume_text)))

\* C26: the untruncated matched set and the untruncated missing set partition
\* the job keywords (a job keyword is missing exactly when it is not matched),
\* so matched_keywords plus the number of missing keywords is
\* total_jd_keywords, and with at most 15 job keywords the missing_keywords
\* list has total_jd_keywords - matched_keywords entries.
C26_MatchedMissingPartition ==
    Returned =>
        \A matches \in {UntruncatedMatches}, missing \in {UntruncatedMissing} :
            /\ matches \cup missing = JdKeywords
            /\ matches \cap missing = {}
            /\ missing = JdKeywords \ ShouldMatch
            /\ result.matched_keywords = Cardinality(matches)
            /\ result.total_jd_keywords = Cardinality(JdKeywords)
            /\ result.matched_keywords + Cardinality(missing) = result.total_jd_keywords
            /\ result.total_jd_keywords <= 15 =>
                  /\ Len(result.missing_keywords)
                        = result.total_jd_keywords - result.matched_keywords
                  /\ Reported(result.missing_keywords) = missing

\* three job keywords, one matched through a synonym only, one matched by
\* name, one missing
C26_Witness ==
    /\ Returned
    /\ resume_text = "db JavaScript" /\ jd_text = "SQL, Java and AWS"
    /\ result.total_jd_keywords = 3
    /\ result.matched_keywords = 2
    /\ result.missing_keywords = <<"aws">>

(***************************************************************************)
(* Properties of the suggestions of match_resume_jd                        *)
(***************************************************************************)
SuggestionsFor(kw) ==
    SelectSeq(result.suggestions, LAMBDA entry : entry.keyword = kw)

\* C27: every suggestion names a keyword of the returned missing_keywords
\* list, and when at most 10 keywords are missing every returned missing
\* keyword has exactly one suggestion.
C27_SuggestionsNameReportedMissing ==
    Returned =>
        /\ \A k \in DOMAIN result.suggestions :
              result.suggestions[k].keyword \in Reported(result.missing_keywords)
        /\ Cardinality(UntruncatedMissing) <= 10 =>
              \A kw \in Reported(result.missing_keywords) : Len(SuggestionsFor(kw)) = 1

(***************************************************************************)
(* Properties of total_issues and of the general suggestions               *)
(***************************************************************************)
\* the general suggestion made for a category of issues
CategorySuggestion ==
    [weak_language |-> "Use strong action verbs to start bullet points",
     passive_voice |-> "Convert passive voice to active voice for impact",
     first_person  |-> "Remove first person pronouns (I, my, we, our)"]

\* C28: total_issues is the number of issues detected before the cut to 20,
\* so it is at least len(issues), and equal to it exactly when at most 20
\* issues were detected; the suggestion of a category is in the report exactly
\* when an issue of the category was detected, cut from the list or not.
C28_TotalAndSuggestionsUncapped ==
    (grammar_report # None /\ grammar_report # ZeroDivisionError) =>
        \A detected \in {Detected(resume_text)} :
            /\ grammar_report.total_issues = Len(detected)
            /\ grammar_report.total_issues >= Len(grammar_report.issues)
            /\ (grammar_report.total_issues = Len(grammar_report.issues))
                   <=> (Len(detected) <= 20)
            /\ \A category \in DOMAIN CategorySuggestion :
                  (CategorySuggestion[category] \in Range(grammar_report.suggestions))
                      <=> (\E d \in DOMAIN detected : detected[d].type = category)

\* 23 issues are detected, the 20 kept are weak phrases, typos and passive
\* forms, and the suggestion on first person pronouns is made although the
\* three issues of that category are all cut
C28_Witness ==
    /\ grammar_report # None
    /\ grammar_report.total_issues = 23
    /\ Len(grammar_report.issues) = 20
    /\ \A k \in DOMAIN grammar_report.issues :
          grammar_report.issues[k].type # "first_person"
    /\ "Remove first person pronouns (I, my, we, our)"
           \in Range(grammar_report.suggestions)

(***************************************************************************)
(* Properties of the responses of match_job                                *)
(***************************************************************************)
\* floor(0.6 * keyword_score + 0.4 * safety_score), keyword_score being
\* 100 * matched / total, or 0 when total is 0
WeightedScoreFloor(matched, total, safety_score) ==
    IF total = 0 THEN (2 * safety_score) \div 5
    ELSE (300 * matched + 2 * total * safety_score) \div (5 * total)

\* C30: every successful response of match_job has an integer ats_score in
\* 5..95 equal to min(95, max(5, floor(0.6 * keyword_score + 0.4 * safety_score)))
\* with keyword_score = 100 * matched / job keywords (0 without job keywords);
\* overall_grade is A from 85, B from 70 to 84, C from 55 to 69 and D below;
\* matched_keywords and missing_keywords are disjoint and missing_keywords has
\* at most 8 entries.
C30_AtsScoreAndGrade ==
    (match_response # None) =>
        (match_response.success =>
            \A response \in {match_response},
               matched \in {match_response.keyword_analysis.matched_keywords},
               missing \in {match_response.keyword_analysis.missing_keywords} :
                /\ response.ats_score \in 5..95
                /\ response.ats_score =
                       MinOf({95, MaxOf({5, WeightedScoreFloor(
                           Len(matched), response.keyword_analysis.total_job_keywords,
                           response.bot_safety.safety_score)})})
                /\ (response.overall_grade = "A") <=> (response.ats_score >= 85)
                /\ (response.overall_grade = "B") <=> (response.ats_score \in 70..84)
                /\ (response.overall_grade = "C") <=> (response.ats_score \in 55..69)
                /\ (response.overall_grade = "D") <=> (response.ats_score < 55)
                /\ Range(matched) \cap Range(missing) = {}
                /\ Len(missing) <= 8)

(***************************************************************************)
(* Properties of the five operations on degenerate input                   *)
(***************************************************************************)
\* the text has no sentence: nothing but white space between the . ! ?
NoSentence(text) ==
    \A n \in DOMAIN SplitOn(text, {".", "!", "?"}) :
        Strip(SplitOn(text, {".", "!", "?"})[n]) = ""

\* C8: on degenerate input none of the five operations raises: keyword
\* extraction returns the empty set, and matching, compliance analysis, style
\* analysis and suggestion generation each return a well-formed result (the
\* neutral values where the spec names them: score 0 and empty lists for a
\* job text without keywords, readability 50 for a text without sentence).
C8_DegenerateInputNeverRaises ==
    /\ \A text \in DOMAIN keywords :
          text \in DegenerateTexts => keywords[text].last = {}
    /\ result # None =>
          /\ result # ZeroDivisionError
          /\ DOMAIN result = {"score", "match_percentage", "found_keywords",
                              "missing_keywords", "keyword_density",
                              "total_jd_keywords", "matched_keywords", "suggestions"}
          /\ RLeq(R(0), result.score) /\ RLeq(result.score, R(100))
          /\ jd_text \in DegenerateTexts =>
                /\ result.score = R(0)
                /\ result.found_keywords = <<>> /\ result.missing_keywords = <<>>
                /\ result.suggestions = <<>>
          /\ resume_text \in DegenerateTexts =>
                result.score = R(0) /\ DOMAIN result.keyword_density = {}
    /\ ats_report # None =>
          /\ DOMAIN ats_report = {"score", "issues", "total_issues", "compatibility"}
          /\ RLeq(R(0), ats_report.score) /\ RLeq(ats_report.score, R(100))
          /\ ats_report.total_issues = Len(ats_report.issues)
    /\ grammar_report # None =>
          /\ grammar_report # ZeroDivisionError
          /\ DOMAIN grammar_report = {"total_issues", "issues", "readability_score",
                                      "action_verb_count", "weak_phrase_count",
                                      "suggestions"}
          /\ RLeq(R(0), grammar_report.readability_score)
          /\ RLeq(grammar_report.readability_score, R(100))
          /\ NoSentence(resume_text) => grammar_report.readability_score = R(50)
          /\ resume_text \in DegenerateTexts => grammar_report.issues = <<>>
    /\ optimization # None =>
          /\ DOMAIN optimization = {"section_headers", "keyword_placement",
                                    "formatting", "content", "impact_statements",
                                    "priority_fixes"}
          /\ Len(optimization.priority_fixes) <= 10

\* all five operations have returned for a blank resume text and an empty
\* job text
C8_Witness ==
    /\ resume_text = "\n\t " /\ jd_text = ""
    /\ DOMAIN keywords = {"\n\t "}
    /\ result # None /\ ats_report # None /\ grammar_report # None
    /\ optimization # None
    /\ optimization.priority_fixes # <<>>

====
